---- MODULE Spec2Model ----
(***************************************************************************)
(* A model of norsk_lookup: the polling hotkey monitors                    *)
(* (hotkey_monitor.py), the UI Automation selection capture                *)
(* (src/text_capture.py), the popup manager and its geometry helper        *)
(* (popup_ui.py), the application coordinator (src/main.py), the           *)
(* dictionary client (lexin_api.py), the update checker                    *)
(* (src/update_checker.py) and the low-level keyboard hook (hotkey.py,     *)
(* norsk_lookup.py) and the single-file entry point (main.py).             *)
(*                                                                         *)
(* Each component has its own specification over the shared variables:     *)
(*   SpecMonitor   one poll-loop thread of HotkeyMonitor /                 *)
(*                 MultiHotkeyMonitor and the keyboard it samples          *)
(*   SpecStop      the same, with a fair scheduler, for stopping           *)
(*   SpecCapture   TextCapture and the selection strategies                *)
(*   SpecGeometry  the placement of a popup on a monitor or the screen     *)
(*   SpecPopup     PopupManager, its windows and its Tk timers             *)
(*   SpecPopupLive the same, with the Tk event loop running due timers     *)
(*   Spec          the application: hotkey, capture, lookup, popup         *)
(*   SpecAppLive   the threads of the application, scheduled fairly        *)
(*   SpecLexin     LexinAPI.lookup on the responses of the service         *)
(*   SpecUpdater   UpdateChecker and its cache file as the clock advances  *)
(*   SpecHook      start_alt_n_hotkey, the hook thread and the hook proc   *)
(*   SpecMono      the single-file entry point (main.py) and its monitor   *)
(*   SpecRestart   a HotkeyMonitor restarted, its threads calling one      *)
(*                 TextCapture                                             *)
(***************************************************************************)
EXTENDS Integers, Sequences, FiniteSets, TLC

None == "None"

(***************************************************************************)
(* Bounds of the model.                                                    *)
(***************************************************************************)
\* Most (hotkey, callback) pairs registered with one MultiHotkeyMonitor.
MaxHotkeys == 2
\* Longest text a selection-query strategy returns, in characters.
MaxLen == 2
\* Most popup windows a PopupManager driven on its own creates.
MaxPopups == 3
\* Most hotkey presses with a captured text the application handles.
MaxRequests == 2
\* Most entries in the response of the dictionary service.
MaxEntries == 4
\* Latest hour the clock of the update checker reaches.
MaxClock == 60

(***************************************************************************)
(* hotkey_monitor.py                                                       *)
(***************************************************************************)
\* The virtual keys the modelled keyboard has: VK_MENU, VirtualKeys.P, .N.
Keys == {"Alt", "P", "N"}

\* The compiled-in default chord of the application, Alt+P+N.
DefaultChord == <<"Alt", "P", "N">>

\* Hotkey.keys values: the non-empty tuples of distinct keys, in any order.
AllChords ==
    {c \in UNION {[1..n -> Keys] : n \in 1..3} :
        \A i, j \in DOMAIN c : i # j => c[i] # c[j]}

\* The chords registered with a MultiHotkeyMonitor in this model; they share
\* keys, so one chord can be held while another is pressed or released.
MultiChords == {<<"Alt", "P">>, <<"N", "Alt">>, <<"P">>}

VARIABLES
    mon_class,         \* "HotkeyMonitor" or "MultiHotkeyMonitor"
    hotkeys,           \* the registered Hotkey.keys tuples, in registration order
    keys_down,         \* keys GetAsyncKeyState reports down at this moment
    running,           \* self.running
    triggered,         \* HotkeyMonitor.triggered
    triggered_states,  \* MultiHotkeyMonitor.triggered_states
    mpc,               \* where the poll thread is: new, loop, scan, callback, dead, done
    idx,               \* index of the hotkey under check in this tick
    scan_i,            \* index of the key Hotkey.is_pressed reads next
    \* -- history of what the poll thread observed and did, per hotkey index
    obs,               \* result of is_pressed in the hotkey's latest check
    prev_obs,          \* result of is_pressed in the check before that
    fired,             \* whether the latest check invoked the callback
    checked,           \* hotkeys whose check has been made in the current tick
    raised,            \* hotkeys whose callback raised in the current tick
    raised_ever,       \* a callback has raised at some time
    raised_last,       \* the hotkey's latest invocation raised, and no check
                       \* has observed the chord released since
    \* -- history of the scenario "release P and press it again, Alt and N held"
    scen,              \* none, fired, released, repressed
    seen_release,      \* a check observed the chord not pressed while P was released
    checked_after,     \* a check observed the chord pressed after P was pressed again
    fired_again,       \* the callback was invoked after P was pressed again
    \* -- stop(), and what the poll thread did after stop() cleared the flag
    stop_pc,           \* the caller of stop(): idle, joining, returned
    checked_after_stop,   \* hotkeys whose check was completed after the clearing
    called_after_stop,    \* hotkeys whose callback was invoked after the clearing
    rechecked_after_stop  \* some hotkey was checked twice after the clearing

monVars == <<mon_class, hotkeys, keys_down, running, triggered, triggered_states,
             mpc, idx, scan_i, obs, prev_obs, fired, checked, raised, raised_ever, raised_last,
             scen, seen_release, checked_after, fired_again,
             stop_pc, checked_after_stop, called_after_stop,
             rechecked_after_stop>>

(***************************************************************************)
(* src/text_capture.py                                                     *)
(***************************************************************************)
VARIABLES
    control,           \* what the focused control answers to each pattern query
    uia,               \* TextCapture._uia: None or the automation object
    com_initialized,   \* TextCapture._com_initialized
    cap_in,            \* what the platform answered during the latest call
    cap_ret,           \* what the latest get_selected_text call returned
    com_inits,         \* history: calls of comtypes.CoInitialize so far
    uia_created,       \* history: automation objects CreateObject returned
    cap_repeated,      \* history: get_selected_text was called more than once
    clipboard,         \* the content of the system clipboard
    synth_keys         \* key events synthesized to the focused application

capVars == <<control, uia, com_initialized, cap_in, cap_ret, com_inits,
             uia_created, cap_repeated, clipboard, synth_keys>>

(***************************************************************************)
(* popup_ui.py: MonitorInfo, MonitorHelper, PopupManager._position_popup   *)
(***************************************************************************)
VARIABLES
    monitors,          \* MonitorHelper.get_all_monitors(), in enumeration order
    popup_size,        \* <<winfo_width, winfo_height>> of the popup being placed
    offset,            \* <<config.offset_x, config.offset_y>>
    geo_placed,        \* _position_popup has placed the popup
    geo_cursor,        \* MonitorHelper.get_cursor_position() at the placement
    geo_monitor,       \* the monitor the latest placement chose, or NoMonitor
    geo_xy             \* the <<x, y>> the latest placement gave popup.geometry

geoVars == <<monitors, popup_size, offset, geo_placed, geo_cursor, geo_monitor,
            geo_xy>>

(***************************************************************************)
(* popup_ui.py: PopupManager, and the Tk windows and timers it creates     *)
(***************************************************************************)
VARIABLES
    windows,           \* the live Toplevel popups: id -> what each shows and where
    current_popup,     \* per manager: self.current_popup, 0 for None
    next_id,           \* id of the next Toplevel created
    timers,            \* pending popup.after(...) callbacks:
                       \* <<kind, popup id, ms left>>
    auto_close_ms,     \* config.auto_close_ms of the app manager: <<>> for
                       \* None, else <<ms>>
    cursor,            \* the cursor position at this moment
    touched_by,        \* threads on which show / close_current have executed
    empty_show,        \* the latest show / close_current was a show of an empty
                       \* text: "from_showing", "from_empty", else "no"
    outside_press,     \* history: a button went down outside the popup the
                       \* app manager is showing
    close_case         \* history: what the latest close_current call met:
                       \* "none" yet, "empty", "live" or "stale"

popVars == <<windows, current_popup, next_id, timers, auto_close_ms,
             empty_show, cursor, touched_by, outside_press, close_case>>

(***************************************************************************)
(* src/main.py: TextDisplayApp                                             *)
(***************************************************************************)
VARIABLES
    app_state,         \* new (constructed), mainloop (run() is in mainloop), stopped
    ui_queue,          \* callbacks handed to root.after(0, ...), oldest first
    hk_pc,             \* the hotkey thread: new, poll, spawn, done
    nreq,              \* hotkey presses that captured a text so far
    req_pos,           \* request -> cursor position captured at its press
    lookups,           \* requests whose lookup thread is running
    upd_pc,            \* the update-check thread: new, sleeping, done
    newest_result,     \* the newest request whose result has been displayed, or 0
    last_absent,       \* the latest hotkey press captured no text
    enqueued_late,     \* history: a lookup thread handed over its result
                       \* after the event loop had ended
    applied,           \* history: the <<kind, request>> of the callbacks the
                       \* UI thread has run
    placeholders_shown \* history: the requests whose "Thinking..." placeholder
                       \* has been displayed in a popup

appVars == <<app_state, ui_queue, hk_pc, nreq, req_pos, lookups, upd_pc,
             newest_result, last_absent, enqueued_late, applied,
             placeholders_shown>>

(***************************************************************************)
(* lexin_api.py: LexinAPI                                                  *)
(***************************************************************************)
VARIABLES
    lex_in,            \* the lookup under way: the response and max_results
    lex_called,        \* lookup has returned or raised
    lex_ret            \* what lookup returned, or the exception it let out

lexVars == <<lex_in, lex_called, lex_ret>>

(***************************************************************************)
(* src/update_checker.py: UpdateChecker                                    *)
(***************************************************************************)
VARIABLES
    upd_now,           \* time.time(), in hours
    cache,             \* the cache file: missing, corrupt, or valid with last_check
    upd_call,          \* the latest check_for_updates call and what it met
    upd_requests,      \* network requests the latest call made
    upd_marked,        \* the latest call reached mark_checked
    upd_ret            \* what the latest call returned: "none" or "update"

updVars == <<upd_now, cache, upd_call, upd_requests, upd_marked, upd_ret>>

(***************************************************************************)
(* hotkey.py and norsk_lookup.py: the keyboard hook and the entry point    *)
(***************************************************************************)
VARIABLES
    hp_main,           \* main(): start, waiting, after_wait, raised, mainloop, exited
    hp_polls,          \* iterations the wait loop of start_alt_n_hotkey has made
    hp_thread,         \* thread_proc: new, installing, failed, loop, done
    hook_id,           \* state["hook_id"]: 0 for None
    hook_error,        \* state["error"] is set
    os_hooked,         \* the low-level keyboard hook is installed
    stop_event,        \* stop_event.is_set()
    runner,            \* the HotkeyRunner returned: none, no_hook (_hook_id None), hook
    keys_pressed,      \* state["keys_pressed"]
    hk_triggered,      \* state["triggered"]
    hook_ev            \* the latest event the hook procedure handled

hookVars == <<hp_main, hp_polls, hp_thread, hook_id, hook_error, os_hooked,
              stop_event, runner, keys_pressed, hk_triggered, hook_ev>>

(***************************************************************************)
(* main.py: the single-file entry point, its HotkeyMonitor and its app     *)
(***************************************************************************)
VARIABLES
    mono_main,         \* TextDisplayApp.run: init, mainloop, exited
    mono_thread,       \* monitor thread: new, loop, check, callback, sleep, done, dead
    mono_running,      \* HotkeyMonitor.running
    mono_keys_pressed, \* HotkeyMonitor.keys_pressed
    mono_keys_down,    \* the keys GetAsyncKeyState reports down
    mono_calls,        \* invocations of the callback so far
    mono_raised        \* an invocation of the callback has raised

monoVars == <<mono_main, mono_thread, mono_running, mono_keys_pressed,
              mono_keys_down, mono_calls, mono_raised>>

(***************************************************************************)
(* hotkey_monitor.py and src/text_capture.py: one HotkeyMonitor started    *)
(* and stopped again and again, its callback calling one TextCapture       *)
(***************************************************************************)
VARIABLES
    rs_running,        \* HotkeyMonitor.running
    rs_triggered,      \* HotkeyMonitor.triggered
    rs_thread,         \* HotkeyMonitor._thread: 0 for None, else the thread
    rs_threads,        \* the poll threads created so far, each at: loop,
                       \* check, callback, sleep, done
    rs_caller,         \* the thread calling start() / stop(): idle, joining
    rs_com_initialized,\* TextCapture._com_initialized
    rs_uia,            \* TextCapture._uia is not None
    rs_com_threads,    \* the threads on which CoInitialize has been called
    rs_callers         \* the threads on which get_selected_text has run

rsVars == <<rs_running, rs_triggered, rs_thread, rs_threads, rs_caller,
            rs_com_initialized, rs_uia, rs_com_threads, rs_callers>>

auxVars == <<lexVars, updVars, hookVars, monoVars, rsVars>>

vars == <<monVars, capVars, geoVars, popVars, appVars, auxVars>>

HotkeyIds == 1..MaxHotkeys
NoHistory == [i \in HotkeyIds |-> FALSE]

\* HotkeyMonitor.__init__ / MultiHotkeyMonitor.__init__: nothing runs, nothing
\* is triggered. A HotkeyMonitor gets its hotkey at construction; a
\* MultiHotkeyMonitor starts with no hotkeys.
MonitorInit ==
    /\ mon_class \in {"HotkeyMonitor", "MultiHotkeyMonitor"}
    /\ hotkeys \in IF mon_class = "HotkeyMonitor"
                   THEN {<<c>> : c \in AllChords} ELSE {<<>>}
    /\ keys_down = {}
    /\ running = FALSE
    /\ triggered = FALSE
    /\ triggered_states = {}
    /\ mpc = "new"
    /\ idx = 0
    /\ scan_i = 0
    /\ obs = NoHistory
    /\ prev_obs = NoHistory
    /\ fired = NoHistory
    /\ checked = {}
    /\ raised = {}
    /\ raised_ever = FALSE
    /\ raised_last = NoHistory
    /\ scen = "none"
    /\ seen_release = FALSE
    /\ checked_after = FALSE
    /\ fired_again = FALSE
    /\ stop_pc = "idle"
    /\ checked_after_stop = {}
    /\ called_after_stop = {}
    /\ rechecked_after_stop = FALSE

\* The monitor as the application constructs it, for the specifications in
\* which its poll thread is not stepped.
MonitorIdle ==
    /\ mon_class = "HotkeyMonitor"
    /\ hotkeys = <<DefaultChord>>
    /\ keys_down = {}
    /\ running = FALSE
    /\ triggered = FALSE
    /\ triggered_states = {}
    /\ mpc = "new"
    /\ idx = 0
    /\ scan_i = 0
    /\ obs = NoHistory
    /\ prev_obs = NoHistory
    /\ fired = NoHistory
    /\ checked = {}
    /\ raised = {}
    /\ raised_ever = FALSE
    /\ raised_last = NoHistory
    /\ scen = "none"
    /\ seen_release = FALSE
    /\ checked_after = FALSE
    /\ fired_again = FALSE
    /\ stop_pc = "idle"
    /\ checked_after_stop = {}
    /\ called_after_stop = {}
    /\ rechecked_after_stop = FALSE

\* A monitor after start(), its poll thread about to test the flag: the
\* application's, or a MultiHotkeyMonitor with some hotkeys registered.
MonitorStarted ==
    /\ mon_class \in {"HotkeyMonitor", "MultiHotkeyMonitor"}
    /\ hotkeys \in IF mon_class = "HotkeyMonitor"
                   THEN {<<DefaultChord>>}
                   ELSE {SubSeq(<<<<"Alt", "P">>, <<"N", "Alt">>, <<"P">>>>, 1, n) :
                            n \in 1..MaxHotkeys}
    /\ keys_down = {}
    /\ running = TRUE
    /\ triggered = FALSE
    /\ triggered_states = {}
    /\ mpc = "loop"
    /\ idx = 0
    /\ scan_i = 0
    /\ obs = NoHistory
    /\ prev_obs = NoHistory
    /\ fired = NoHistory
    /\ checked = {}
    /\ raised = {}
    /\ raised_ever = FALSE
    /\ raised_last = NoHistory
    /\ scen = "none"
    /\ seen_release = FALSE
    /\ checked_after = FALSE
    /\ fired_again = FALSE
    /\ stop_pc = "idle"
    /\ checked_after_stop = {}
    /\ called_after_stop = {}
    /\ rechecked_after_stop = FALSE

\* The scenario history follows the keyboard: it starts when the callback is
\* invoked with the whole default chord down, and any other key change ends it.
ScenAfterKey(k, down) ==
    IF down /\ k = "P" /\ scen = "released" THEN "repressed"
    ELSE IF ~down /\ k = "P" /\ scen = "fired" THEN "released"
    ELSE "none"

\* The user presses or releases a key (the keyboard is not part of the program).
KeyDown(k) ==
    /\ k \notin keys_down
    /\ keys_down' = keys_down \cup {k}
    /\ scen' = ScenAfterKey(k, TRUE)
    /\ seen_release' = (seen_release /\ scen' = "repressed")
    /\ checked_after' = FALSE
    /\ fired_again' = FALSE
    /\ UNCHANGED <<mon_class, hotkeys, running, triggered, triggered_states, mpc,
                   idx, scan_i, obs, prev_obs, fired, checked, raised, raised_ever, raised_last>>
    /\ UNCHANGED <<stop_pc, checked_after_stop, called_after_stop,
                   rechecked_after_stop>>

KeyUp(k) ==
    /\ k \in keys_down
    /\ keys_down' = keys_down \ {k}
    /\ scen' = ScenAfterKey(k, FALSE)
    /\ seen_release' = FALSE
    /\ checked_after' = FALSE
    /\ fired_again' = FALSE
    /\ UNCHANGED <<mon_class, hotkeys, running, triggered, triggered_states, mpc,
                   idx, scan_i, obs, prev_obs, fired, checked, raised, raised_ever, raised_last>>
    /\ UNCHANGED <<stop_pc, checked_after_stop, called_after_stop,
                   rechecked_after_stop>>

\* MultiHotkeyMonitor.register: append the pair; allowed before and after start.
register(chord) ==
    /\ mon_class = "MultiHotkeyMonitor"
    /\ Len(hotkeys) < MaxHotkeys
    /\ hotkeys' = Append(hotkeys, chord)
    /\ UNCHANGED <<mon_class, keys_down, running, triggered, triggered_states, mpc,
                   idx, scan_i, obs, prev_obs, fired, checked, raised, raised_ever, raised_last,
                   scen, seen_release, checked_after, fired_again,
                   stop_pc, checked_after_stop, called_after_stop,
                   rechecked_after_stop>>

\* start(): a no-op when already running, else set the flag and start the thread,
\* which enters _monitor_loop.
start ==
    /\ ~running
    /\ running' = TRUE
    /\ mpc' = "loop"
    /\ UNCHANGED <<mon_class, hotkeys, keys_down, triggered, triggered_states,
                   idx, scan_i, obs, prev_obs, fired, checked, raised, raised_ever, raised_last,
                   scen, seen_release, checked_after, fired_again,
                   stop_pc, checked_after_stop, called_after_stop,
                   rechecked_after_stop>>

\* `while self.running:` -- the loop goes on while the flag is set.
loop_ignores_flag(flag) == TRUE

loop_continues(flag) == flag

\* _monitor_loop: `while self.running:` after the sleep. A running loop starts
\* the next tick with the first hotkey; a cleared flag ends the thread.
monitor_loop ==
    /\ mpc = "loop"
    /\ IF ~loop_continues(running)
       THEN mpc' = "done" /\ UNCHANGED <<idx, scan_i, checked, raised>>
       ELSE /\ checked' = {}
            /\ raised' = {}
            /\ IF Len(hotkeys) = 0
               THEN UNCHANGED <<mpc, idx, scan_i>>
               ELSE mpc' = "scan" /\ idx' = 1 /\ scan_i' = 1
    /\ UNCHANGED <<mon_class, hotkeys, keys_down, running, triggered,
                   triggered_states, obs, prev_obs, fired, raised_ever, raised_last,
                   scen, seen_release, checked_after, fired_again,
                   stop_pc, checked_after_stop, called_after_stop,
                   rechecked_after_stop>>

\* _check_hotkey, the branch taken on is_pressed(): whether the callback is
\* invoked, and the new value of self.triggered.
check_hotkey_invokes_always(pressed, trig) == pressed

check_hotkey_invokes(pressed, trig) == pressed /\ ~trig

check_hotkey_norearm(pressed, trig) == pressed \/ trig

check_hotkey_triggered(pressed, trig) == IF pressed THEN TRUE ELSE FALSE

\* _check_all_hotkeys, the same branch for the hotkey at index i: whether its
\* callback is invoked, and the new triggered_states.
check_all_invokes(pressed, i, ts) == pressed /\ i \notin ts

check_all_shared_flag(pressed, i, ts) == IF pressed THEN HotkeyIds ELSE {}

check_all_triggered_states(pressed, i, ts) ==
    IF pressed THEN ts \cup {i} ELSE ts \ {i}

\* Where the poll thread goes after the check of hotkey idx: the next hotkey of
\* the enumeration, or time.sleep(poll_rate) and back to the loop test.
NextCheck ==
    IF mon_class = "MultiHotkeyMonitor" /\ idx < Len(hotkeys)
    THEN mpc' = "scan" /\ idx' = idx + 1 /\ scan_i' = 1
    ELSE mpc' = "loop" /\ UNCHANGED <<idx, scan_i>>

\* The scenario is followed for a HotkeyMonitor on the default chord only.
ScenTracked == mon_class = "HotkeyMonitor" /\ hotkeys = <<DefaultChord>>

\* The rest of _check_hotkey / of one iteration of _check_all_hotkeys once
\* is_pressed() has returned `pressed` for hotkey idx.
CheckDone(pressed) ==
    LET single == mon_class = "HotkeyMonitor"
        invoke == IF single THEN check_hotkey_invokes(pressed, triggered)
                  ELSE check_all_invokes(pressed, idx, triggered_states)
    IN  /\ triggered' = IF single THEN check_hotkey_triggered(pressed, triggered)
                        ELSE triggered
        /\ triggered_states' =
               IF single THEN triggered_states
               ELSE check_all_triggered_states(pressed, idx, triggered_states)
        /\ prev_obs' = [prev_obs EXCEPT ![idx] = obs[idx]]
        /\ obs' = [obs EXCEPT ![idx] = pressed]
        /\ fired' = [fired EXCEPT ![idx] = invoke]
        /\ checked' = checked \cup {idx}
        /\ IF invoke
           THEN mpc' = "callback" /\ UNCHANGED <<idx, scan_i>>
           ELSE NextCheck
        /\ scen' = IF ScenTracked /\ invoke /\ scen # "repressed"
                   THEN (IF Keys \subseteq keys_down THEN "fired" ELSE "none")
                   ELSE scen
        /\ seen_release' = (seen_release \/ (scen = "released" /\ ~pressed))
        /\ checked_after' = (checked_after \/ (scen = "repressed" /\ pressed))
        /\ fired_again' = (fired_again \/ (scen = "repressed" /\ invoke))
        /\ checked_after_stop' = IF stop_pc = "idle" THEN checked_after_stop
                                 ELSE checked_after_stop \cup {idx}
        /\ called_after_stop' = IF stop_pc # "idle" /\ invoke
                                THEN called_after_stop \cup {idx}
                                ELSE called_after_stop
        /\ rechecked_after_stop' =
               (rechecked_after_stop \/
                   (stop_pc # "idle" /\ idx \in checked_after_stop))
        /\ raised_last' = IF pressed THEN raised_last
                          ELSE [raised_last EXCEPT ![idx] = FALSE]
        /\ UNCHANGED <<mon_class, hotkeys, keys_down, running, raised, raised_ever,
                       stop_pc>>

\* Hotkey.is_pressed: one GetAsyncKeyState call per key, in tuple order,
\* returning False at the first key that is up. The keyboard may change between
\* two calls, so each call is a step of its own.
is_pressed_step ==
    /\ mpc = "scan"
    /\ LET chord == hotkeys[idx]
           down == chord[scan_i] \in keys_down
       IN  IF down /\ scan_i < Len(chord)
           THEN /\ scan_i' = scan_i + 1
                /\ UNCHANGED <<mon_class, hotkeys, keys_down, running, triggered,
                               triggered_states, mpc, idx, obs, prev_obs, fired,
                               checked, raised, raised_ever, raised_last, scen, seen_release,
                               checked_after, fired_again,
                               stop_pc, checked_after_stop, called_after_stop,
                               rechecked_after_stop>>
           ELSE CheckDone(down)

\* try: callback() except Exception: print(...) -- the exception is swallowed
\* and the check goes on. "continue" or "dead" (the exception leaves the loop).
after_callback_uncaught(raises) == IF raises THEN "dead" ELSE "continue"

after_callback(raises) == "continue"

\* The callback returns or raises; it runs on the poll thread, which checks no
\* key while it runs.
callback_ends(raises) ==
    /\ mpc = "callback"
    /\ raised' = IF raises THEN raised \cup {idx} ELSE raised
    /\ raised_ever' = (raised_ever \/ raises)
    /\ raised_last' = [raised_last EXCEPT ![idx] = raises]
    /\ IF after_callback(raises) = "dead"
       THEN mpc' = "dead" /\ UNCHANGED <<idx, scan_i>>
       ELSE NextCheck
    /\ UNCHANGED <<mon_class, hotkeys, keys_down, running, triggered,
                   triggered_states, obs, prev_obs, fired, checked,
                   scen, seen_release, checked_after, fired_again,
                   stop_pc, checked_after_stop, called_after_stop,
                   rechecked_after_stop>>

\* stop(): a no-op on a monitor that is not running; else clear the flag and
\* join the poll thread.
stop ==
    /\ stop_pc = "idle"
    /\ IF ~running
       THEN UNCHANGED <<running, stop_pc>>
       ELSE running' = FALSE /\ stop_pc' = "joining"
    /\ UNCHANGED <<mon_class, hotkeys, keys_down, triggered, triggered_states, mpc,
                   idx, scan_i, obs, prev_obs, fired, checked, raised, raised_ever, raised_last,
                   scen, seen_release, checked_after, fired_again,
                   checked_after_stop, called_after_stop, rechecked_after_stop>>

\* self._thread.join(timeout=timeout) returns: the thread has ended or the
\* timeout has passed, whatever the thread is doing.
stop_returns ==
    /\ stop_pc = "joining"
    /\ stop_pc' = "returned"
    /\ UNCHANGED <<mon_class, hotkeys, keys_down, running, triggered,
                   triggered_states, mpc, idx, scan_i, obs, prev_obs, fired,
                   checked, raised, raised_ever, raised_last, scen, seen_release,
                   checked_after, fired_again,
                   checked_after_stop, called_after_stop, rechecked_after_stop>>

MonitorNext ==
    /\ \/ \E k \in Keys : KeyDown(k)
       \/ \E k \in Keys : KeyUp(k)
       \/ \E c \in MultiChords : register(c)
       \/ start
       \/ monitor_loop
       \/ is_pressed_step
       \/ \E raises \in BOOLEAN : callback_ends(raises)
    /\ UNCHANGED <<capVars, geoVars, popVars, appVars, auxVars>>

(***************************************************************************)
(* src/text_capture.py: TextCapture                                        *)
(***************************************************************************)
\* Characters of a captured text: a blank (whitespace) and one letter per
\* strategy, so that a returned text tells which strategy it came from.
Letter(i) == <<"a", "b", "c", "d">>[i]

\* The texts strategy i can get from a control, up to MaxLen characters.
Texts(i) == UNION {[1..n -> {" ", Letter(i)}] : n \in 0..MaxLen}

\* str.strip(): drop the leading and the trailing whitespace.
RECURSIVE LStrip(_)
LStrip(s) == IF s # <<>> /\ Head(s) = " " THEN LStrip(Tail(s)) ELSE s

RECURSIVE RStrip(_)
RStrip(s) ==
    IF s # <<>> /\ s[Len(s)] = " " THEN RStrip(SubSeq(s, 1, Len(s) - 1)) ELSE s

strip_leading_only(s) == LStrip(s)

Strip(s) == RStrip(LStrip(s))

\* Values a Python call yields here: None, a str, or an exception in flight.
PyNone == [k |-> "none", t |-> <<>>]
PyExc == [k |-> "exc", t |-> <<>>]
PyStr(t) == [k |-> "str", t |-> t]

\* `if text:` -- None and the empty string are false.
Truthy(v) == v.k = "str" /\ v.t # <<>>

\* try: <body> except Exception: return None
ExceptReturnsNone(v) == IF v.k = "exc" THEN PyNone ELSE v

\* What a control answers to one pattern query: the call raises (COM error),
\* the pattern is not supported, the selection is empty, or a text comes back.
PatternAnswers(i) ==
    {[kind |-> k, text |-> <<>>] : k \in {"raise", "nopattern", "nosel"}}
        \cup {[kind |-> "text", text |-> t] : t \in Texts(i)}

\* What a control answers to the legacy accessibility value query
\* (LegacyIAccessiblePattern.CurrentValue), which copy_selection makes last.
LegacyAnswers ==
    {[kind |-> k, text |-> <<>>] : k \in {"raise", "nopattern"}}
        \cup {[kind |-> "text", text |-> t] : t \in {<<Letter(4)>>, <<" ", Letter(4)>>}}

\* The controls of the model: one answer per pattern -- text, text 2, value
\* (a value pattern has no selection to be empty) and legacy value.
Controls ==
    {<<a1, a2, a3, a4>> :
        a1 \in PatternAnswers(1), a2 \in PatternAnswers(2),
        a3 \in {a \in PatternAnswers(3) : a.kind # "nosel"},
        a4 \in LegacyAnswers}

\* The body of _try_text_pattern / _try_text_pattern2 inside its try.
text_pattern_body(a) ==
    CASE a.kind = "raise" -> PyExc
      [] a.kind = "text" /\ a.text # <<>> /\ Strip(a.text) # <<>>
            -> PyStr(Strip(a.text))
      [] OTHER -> PyNone

\* The body of _try_value_pattern inside its try.
value_pattern_body(a) ==
    CASE a.kind = "raise" -> PyExc
      [] a.kind = "text" /\ a.text # <<>> /\ Strip(a.text) # <<>>
            -> PyStr(Strip(a.text))
      [] OTHER -> PyNone

try_text_pattern_uncaught(a) == text_pattern_body(a)

try_text_pattern(a) == ExceptReturnsNone(text_pattern_body(a))

try_text_pattern2(a) == ExceptReturnsNone(text_pattern_body(a))

try_value_pattern(a) == ExceptReturnsNone(value_pattern_body(a))

\* The first truthy value of the sequence vs, an exception met before it, or
\* None: `text = f(element); if text: return text` repeated in order.
RECURSIVE FirstTruthy(_)
FirstTruthy(vs) ==
    IF vs = <<>> THEN PyNone
    ELSE IF Head(vs).k = "exc" THEN PyExc
    ELSE IF Truthy(Head(vs)) THEN Head(vs)
    ELSE FirstTruthy(Tail(vs))

\* get_selected_text from `element = uia.GetFocusedElement()` on, inside the
\* outer try: focus is "element", "none" or "raise"; a[i] answers strategy i.
\* The debug read of the element's name is in a try of its own.
strategies_value_first(focus, a) ==
    CASE focus = "raise" -> PyExc
      [] focus = "none" -> PyNone
      [] OTHER -> FirstTruthy(<<try_value_pattern(a[3]),
                               try_text_pattern(a[1]),
                               try_text_pattern2(a[2])>>)

strategies(focus, a) ==
    CASE focus = "raise" -> PyExc
      [] focus = "none" -> PyNone
      [] OTHER -> FirstTruthy(<<try_text_pattern(a[1]),
                               try_text_pattern2(a[2]),
                               try_value_pattern(a[3])>>)

\* The call ended before the question was asked.
NoCapture ==
    [called |-> FALSE, com |-> "ok", create |-> "ok", focus |-> "none",
     details |-> "ok"]

\* TextCapture.__init__
CaptureObjectInit ==
    /\ uia = None
    /\ com_initialized = FALSE
    /\ cap_in = NoCapture
    /\ cap_ret = PyNone
    /\ com_inits = 0
    /\ uia_created = 0
    /\ cap_repeated = FALSE
    /\ clipboard = "user data"
    /\ synth_keys = <<>>

\* A TextCapture object and the control that has the focus.
CaptureInit == control \in Controls /\ CaptureObjectInit

\* The capture object for the specifications that do not call it.
CaptureIdle ==
    /\ control = [i \in 1..4 |-> [kind |-> "nopattern", text |-> <<>>]]
    /\ CaptureObjectInit

\* `if not self._com_initialized:` in _ensure_com_initialized.
ensure_com_always(flag) == TRUE

ensure_com_needed(flag) == ~flag

\* `if self._uia is None:` in _get_uia.
uia_missing(u) == u = None

\* What a call does to the clipboard and to the focused application's
\* keyboard input: a copy-based capture would synthesize Ctrl+C and find the
\* selection on the clipboard; get_selected_text only queries the patterns.
copy_side_effects(clip, keys) == <<"selection", Append(keys, "Ctrl+C")>>

side_effects(clip, keys) == <<clip, keys>>

\* One call of get_selected_text. The platform's answers are the inputs: com
\* (CoInitialize) and create (CreateObject) are asked only while _uia is None,
\* focus only once the automation object exists, the patterns only of a
\* focused element. _com_initialized is set whether CoInitialize raises or
\* not; _uia is assigned only when CreateObject returns.
get_selected_text(com, create, focus, details) ==
    LET creating == uia_missing(uia)
        initializing == creating /\ ensure_com_needed(com_initialized)
        have_uia == ~creating \/ create = "ok"
        body == IF have_uia THEN strategies(focus, control) ELSE PyExc
        effects == side_effects(clipboard, synth_keys)
    IN  /\ com_initialized' = (initializing \/ com_initialized)
        /\ com_inits' = IF initializing THEN com_inits + 1 ELSE com_inits
        /\ uia' = IF have_uia THEN "IUIAutomation" ELSE None
        /\ uia_created' = IF creating /\ create = "ok"
                          THEN uia_created + 1 ELSE uia_created
        /\ cap_repeated' = cap_in.called
        /\ cap_in' = [called |-> TRUE, com |-> com, create |-> create,
                      focus |-> IF have_uia THEN focus ELSE "none",
                      details |-> IF have_uia /\ focus = "element"
                                  THEN details ELSE "ok"]
        /\ cap_ret' = ExceptReturnsNone(body)
        /\ clipboard' = effects[1]
        /\ synth_keys' = effects[2]
        /\ UNCHANGED control

CaptureCall ==
    \E com \in (IF uia = None /\ ~com_initialized THEN {"ok", "raise"} ELSE {"ok"}),
       create \in (IF uia = None THEN {"ok", "raise"} ELSE {"ok"}),
       focus \in {"element", "none", "raise"},
       details \in {"ok", "raise"} :
         get_selected_text(com, create, focus, details)

CaptureNext ==
    CaptureCall /\ UNCHANGED <<monVars, geoVars, popVars, appVars, auxVars>>

(***************************************************************************)
(* popup_ui.py: geometry                                                   *)
(***************************************************************************)
\* The distance from the monitor's edge at which a popup that would cross the
\* edge is put back (the literal 10 of _position_popup).
EdgeMargin == 10

Rect(l, t, r, b) == [left |-> l, top |-> t, right |-> r, bottom |-> b]

\* Optional[MonitorInfo] None: no monitor (the empty rectangle stands for it).
NoMonitor == Rect(0, 0, 0, 0)

\* MonitorInfo.width / MonitorInfo.height
width(m) == m.right - m.left
height(m) == m.bottom - m.top

\* MonitorInfo.contains_point: half-open on the right and bottom edges.
contains_point_closed(m, x, y) ==
    m.left <= x /\ x <= m.right /\ m.top <= y /\ y <= m.bottom

contains_point(m, x, y) ==
    m.left <= x /\ x < m.right /\ m.top <= y /\ y < m.bottom

\* The first monitor of ms (a sequence) that contains the point, or 0.
RECURSIVE FirstContaining(_, _, _, _)
FirstContaining(ms, i, x, y) ==
    IF i > Len(ms) THEN 0
    ELSE IF contains_point(ms[i], x, y) THEN i
    ELSE FirstContaining(ms, i + 1, x, y)

\* MonitorHelper.get_monitor_at_point: the first monitor containing the point,
\* else the first monitor, else None.
get_monitor_at_point_strict(ms, x, y) ==
    LET i == FirstContaining(ms, 1, x, y)
    IN  IF i # 0 THEN ms[i] ELSE NoMonitor

get_monitor_at_point(ms, x, y) ==
    LET i == FirstContaining(ms, 1, x, y)
    IN  IF i # 0 THEN ms[i] ELSE IF ms # <<>> THEN ms[1] ELSE NoMonitor

\* One axis of _position_popup: start at cursor + offset, then
\*   if x + width > monitor.right: x = monitor.right - width - 10
\*   if x < monitor.left:          x = monitor.left + 10
clamp_axis(x0, size, lo, hi) ==
    LET x1 == IF x0 + size > hi THEN hi - size - EdgeMargin ELSE x0
    IN  IF x1 < lo THEN lo + EdgeMargin ELSE x1

\* PopupManager._position_popup on a monitor m for base point c, offset o and
\* popup size sz: the <<x, y>> handed to popup.geometry.
position_on_monitor(m, c, o, sz) ==
    <<clamp_axis(c[1] + o[1], sz[1], m.left, m.right),
      clamp_axis(c[2] + o[2], sz[2], m.top, m.bottom)>>

\* One axis of _position_popup_fallback: only the far edge of the screen is
\* checked.
fallback_axis(x0, size, hi) ==
    IF x0 + size > hi THEN hi - size - EdgeMargin ELSE x0

\* winfo_screenwidth() / winfo_screenheight(): the size of the Tk screen.
ScreenSize == <<40, 30>>

\* PopupManager._position_popup_fallback for pointer c, offset o and popup
\* size sz.
position_fallback(c, o, sz) ==
    <<fallback_axis(c[1] + o[1], sz[1], ScreenSize[1]),
      fallback_axis(c[2] + o[2], sz[2], ScreenSize[2])>>

\* Monitor layouts of the model: an enumeration that yields nothing, one
\* monitor, two side by side in either enumeration order, two stacked, and
\* one to the left of the primary (negative coordinates).
Layouts ==
    {<<>>,
     <<Rect(0, 0, 40, 30)>>,
     <<Rect(0, 0, 40, 30), Rect(40, 0, 70, 30)>>,
     <<Rect(40, 0, 70, 30), Rect(0, 0, 40, 30)>>,
     <<Rect(0, 0, 40, 30), Rect(0, 30, 40, 55)>>,
     <<Rect(0, 0, 40, 30), Rect(-30, 0, 0, 25)>>}

PopupSizes == {5, 19, 20, 21, 29} \X {5, 14, 15, 24}
Offsets == {-12, 0, 10} \X {-12, 0, 10}
CursorPoints == {-31, -5, 0, 20, 39, 40, 69, 75} \X {-2, 0, 15, 24, 29, 30, 56}

GeometryIdle ==
    /\ monitors = <<Rect(0, 0, 40, 30)>>
    /\ popup_size = <<5, 5>>
    /\ offset = <<10, 10>>
    /\ geo_placed = FALSE
    /\ geo_cursor = <<0, 0>>
    /\ geo_monitor = NoMonitor
    /\ geo_xy = <<0, 0>>

\* A popup of some size about to be placed, with some offsets configured,
\* the cursor somewhere on or off some monitor layout.
GeometryInit ==
    /\ monitors \in Layouts
    /\ popup_size \in PopupSizes
    /\ offset \in Offsets
    /\ geo_placed = FALSE
    /\ geo_cursor \in CursorPoints
    /\ geo_monitor = NoMonitor
    /\ geo_xy = <<0, 0>>

\* PopupManager._position_popup: on the monitor found for the cursor, or by
\* the fallback when no monitor was found.
position_popup ==
    LET m == get_monitor_at_point(monitors, geo_cursor[1], geo_cursor[2])
    IN  /\ ~geo_placed
        /\ geo_placed' = TRUE
        /\ geo_monitor' = m
        /\ geo_xy' = IF m = NoMonitor
                     THEN position_fallback(geo_cursor, offset, popup_size)
                     ELSE position_on_monitor(m, geo_cursor, offset, popup_size)
        /\ UNCHANGED <<monitors, popup_size, offset, geo_cursor>>

GeometryNext ==
    position_popup /\ UNCHANGED <<monVars, capVars, popVars, appVars, auxVars>>

(***************************************************************************)
(* popup_ui.py: PopupManager                                               *)
(***************************************************************************)
\* The application's manager and the temporary one of the update notice.
Managers == {"app", "update"}

\* Screen points of the model, and "no position given".
Points == {<<0, 0>>, <<20, 15>>}
NoPoint == <<>>

\* No popup: the kind and request of nothing; as a text, None.
Nothing == <<"none", 0>>

\* The text "".
EmptyText == <<"", 0>>

\* popup.after(100, lambda: close_if_unfocused()): the delay of the focus
\* check, and the step in which the model lets time pass.
FocusCloseMs == 100

\* The auto_close_ms a PopupConfig is built with, None aside.
AutoCloseDelays == {FocusCloseMs, 2 * FocusCloseMs}

\* PopupManager.__init__ for both managers, the cursor somewhere.
PopupInit ==
    /\ windows = <<>>
    /\ current_popup = [m \in Managers |-> 0]
    /\ next_id = 1
    /\ timers = {}
    /\ auto_close_ms \in {<<>>} \cup {<<d>> : d \in AutoCloseDelays}
    /\ cursor \in Points
    /\ touched_by = {}
    /\ empty_show = "no"
    /\ outside_press = FALSE
    /\ close_case = "none"

\* The application builds its manager with the default PopupConfig.
PopupDefault == PopupInit /\ auto_close_ms = <<>> /\ cursor = <<0, 0>>

\* Toplevel.destroy(): the window is gone; destroying a window that is already
\* gone raises at most a TclError, which every caller here swallows.
Destroy(ws, id) == [w \in DOMAIN ws \ {id} |-> ws[w]]

\* Misc.destroy() also deletes the Tcl commands of the window's pending
\* popup.after(...) callbacks: the timers of a destroyed window never run.
cancel_timers(ts, id) == {t \in ts : t[2] # id}

\* The manager is Showing: the popup it holds is a live window.
Showing(m) == current_popup[m] \in DOMAIN windows

\* close_current, the windows it leaves: `if self.current_popup:` destroy it.
close_current_keeps_window(m) == windows

close_current_windows(m) == Destroy(windows, current_popup[m])

\* `if not text: return` -- show goes on to create a popup for a text that
\* is neither None nor "".
show_creates_always(text) == TRUE

show_creates(text) == text \notin {Nothing, EmptyText}

\* def show(self, text): the call binds only when no position keyword is
\* passed; show(text, position=...) raises TypeError before the body runs.
show_accepts(position) == position = NoPoint

\* `if self.config.auto_close_ms is not None: self._setup_auto_close(popup)`
schedules_auto_close_never(ms) == FALSE

schedules_auto_close(ms) == ms # <<>>

\* _setup_auto_close, popup.after(self.config.auto_close_ms, close_if_exists):
\* the timer of the popup just created, for the configured time, whatever
\* timer the popup it replaced had (`old`).
auto_close_timer_inherited(id, ms, old) ==
    IF old = {} THEN {<<"auto", id, ms>>} ELSE {<<"auto", id, t[3]>> : t \in old}

auto_close_timer(id, ms, old) == {<<"auto", id, ms>>}

\* PopupManager.show of manager m, called on thread `by` with text and, when
\* position is a point, the keyword position=. text is <<kind, request>>,
\* Nothing for None, EmptyText for "". A call that does not bind changes nothing.
\* Else close_current first; an empty text ends there; else the popup is
\* created, placed by _position_popup from the cursor as it is now, given its
\* auto-close timer when one is configured, and becomes current_popup.
show(m, text, position, by) ==
    /\ touched_by' = touched_by \cup {by}
    /\ IF ~show_accepts(position)
       THEN UNCHANGED <<windows, current_popup, next_id, timers, empty_show,
                        outside_press>>
       ELSE /\ empty_show' = IF text \notin {Nothing, EmptyText} THEN "no"
                             ELSE IF Showing(m) THEN "from_showing"
                             ELSE "from_empty"
            /\ outside_press' = IF m = "app" THEN FALSE ELSE outside_press
            /\ IF ~show_creates(text)
               THEN /\ windows' = close_current_windows(m)
                    /\ current_popup' = [current_popup EXCEPT ![m] = 0]
                    /\ timers' = cancel_timers(timers, current_popup[m])
                    /\ UNCHANGED next_id
               ELSE /\ windows' =
                        [w \in DOMAIN close_current_windows(m) \cup {next_id} |->
                            IF w = next_id
                            THEN [mgr |-> m, kind |-> text[1], req |-> text[2],
                                  base |-> cursor,
                                  over |-> IF Showing(m)
                                           THEN <<windows[current_popup[m]].kind,
                                                  windows[current_popup[m]].req>>
                                           ELSE Nothing]
                            ELSE windows[w]]
                    /\ current_popup' = [current_popup EXCEPT ![m] = next_id]
                    /\ next_id' = next_id + 1
                    /\ timers' = cancel_timers(timers, current_popup[m]) \cup
                                     IF m = "app" /\ schedules_auto_close(auto_close_ms)
                                     THEN auto_close_timer(next_id, auto_close_ms[1],
                                              {t \in timers : t[1] = "auto"
                                                  /\ t[2] = current_popup[m]})
                                     ELSE {}
    /\ UNCHANGED <<auto_close_ms, cursor, close_case>>

\* PopupManager.close_current() of manager m, executing on thread `by`:
\* _focus_check_id is None throughout (nothing ever assigns it), and the
\* popup, if one is referenced, is destroyed whether or not it still exists.
close_current(m, by) ==
    /\ touched_by' = touched_by \cup {by}
    /\ windows' = close_current_windows(m)
    /\ current_popup' = [current_popup EXCEPT ![m] = 0]
    /\ timers' = cancel_timers(timers, current_popup[m])
    /\ empty_show' = "no"
    /\ outside_press' = IF m = "app" THEN FALSE ELSE outside_press
    /\ close_case' = IF current_popup[m] = 0 THEN "empty"
                     ELSE IF Showing(m) THEN "live" ELSE "stale"
    /\ UNCHANGED <<next_id, auto_close_ms, cursor>>

\* The user moves the mouse.
MoveCursor(p) ==
    /\ p # cursor
    /\ cursor' = p
    /\ UNCHANGED <<windows, current_popup, next_id, timers, auto_close_ms,
                   touched_by, empty_show, outside_press, close_case>>

\* FocusCloseMs pass. The Tk main loop runs a callback when it is due: time
\* does not pass a timer that has run out.
Tick ==
    /\ timers # {}
    /\ \A t \in timers : t[3] > 0
    /\ timers' = {<<t[1], t[2], t[3] - FocusCloseMs>> : t \in timers}
    /\ UNCHANGED <<windows, current_popup, next_id, auto_close_ms, cursor,
                   touched_by, empty_show, outside_press, close_case>>

\* _setup_click_to_close, close_popup: button 1 going down on the popup or its
\* label destroys the popup.
close_popup(id) ==
    /\ id \in DOMAIN windows
    /\ windows' = Destroy(windows, id)
    /\ timers' = cancel_timers(timers, id)
    /\ UNCHANGED <<current_popup, next_id, auto_close_ms, cursor, touched_by,
                   empty_show, outside_press, close_case>>

\* on_global_click: `if not (popup_x <= mouse_x <= popup_x + popup_width and
\* popup_y <= mouse_y <= popup_y + popup_height): popup.destroy()`
destroys_if_outside(inside) == ~inside

\* _setup_focus_tracking, on_global_click, which setup_global_binding binds
\* with root.bind_all 50 ms after the popup is shown: Tk calls it for a button
\* event of one of the application's own windows; it destroys the popup when
\* the pointer is outside the popup's bounds.
on_global_click(id, inside) ==
    /\ windows' = IF id \in DOMAIN windows /\ destroys_if_outside(inside)
                  THEN Destroy(windows, id) ELSE windows
    /\ timers' = IF id \in DOMAIN windows /\ destroys_if_outside(inside)
                 THEN cancel_timers(timers, id) ELSE timers
    /\ UNCHANGED <<current_popup, next_id, auto_close_ms, cursor, touched_by,
                   empty_show, outside_press, close_case>>

\* A mouse button goes down. On the popup `target`, Tk has the event: button
\* 1 runs close_popup, button 2 or 3 has only the bind_all handler, which
\* finds the pointer inside the popup. Anywhere else (target 0) the press is
\* on a window of another application or on the desktop -- the root window
\* is withdrawn and no grab is set -- and Tk has no event: nothing of
\* _setup_focus_tracking runs, and nothing polls the pointer (focus_poll_ms
\* is never read).
button_press(target, button) ==
    IF target = 0
    THEN /\ Showing("app")
         /\ outside_press' = TRUE
         /\ UNCHANGED <<windows, current_popup, next_id, timers,
                        auto_close_ms, cursor, touched_by, empty_show,
                        close_case>>
    ELSE IF button = 1
    THEN close_popup(target)
    ELSE target \in DOMAIN windows /\ on_global_click(target, TRUE)

\* on_focus_out: the popup lost the focus; close_if_unfocused runs 100 ms on.
\* The popup does not get the focus back and lose it again before that.
on_focus_out(id) ==
    /\ id \in DOMAIN windows
    /\ \A t \in timers : ~(t[1] = "focus" /\ t[2] = id)
    /\ timers' = timers \cup {<<"focus", id, FocusCloseMs>>}
    /\ UNCHANGED <<windows, current_popup, next_id, auto_close_ms,
                   cursor, touched_by, empty_show, outside_press, close_case>>

\* close_if_unfocused, `if focused is None or focused.winfo_toplevel() !=
\* popup: popup.destroy()`
keeps_popup_never(inside) == FALSE

keeps_popup(inside) == inside

\* close_if_unfocused, when its 100 ms are over: destroy the popup if it
\* still exists and the focus is not inside it.
close_if_unfocused(id, inside) ==
    /\ <<"focus", id, 0>> \in timers
    /\ IF id \in DOMAIN windows /\ ~keeps_popup(inside)
       THEN /\ windows' = Destroy(windows, id)
            /\ timers' = cancel_timers(timers, id)
       ELSE /\ windows' = windows
            /\ timers' = timers \ {<<"focus", id, 0>>}
    /\ UNCHANGED <<current_popup, next_id, auto_close_ms, cursor,
                   touched_by, empty_show, outside_press, close_case>>

\* _setup_auto_close, close_if_exists, when auto_close_ms are over: destroy
\* the popup if it still exists.
close_if_exists(id) ==
    /\ <<"auto", id, 0>> \in timers
    /\ timers' = cancel_timers(timers, id)
    /\ windows' = Destroy(windows, id)
    /\ UNCHANGED <<current_popup, next_id, auto_close_ms, cursor,
                   touched_by, empty_show, outside_press, close_case>>

\* A focus check, an auto-close that is due.
FocusCheckDue ==
    \E t \in timers, inside \in BOOLEAN :
        t[1] = "focus" /\ close_if_unfocused(t[2], inside)

AutoCloseDue == \E t \in timers : t[1] = "auto" /\ close_if_exists(t[2])

\* The events of the popups, all handled on the Tk main-loop thread.
Dismissal ==
    \/ \E id \in DOMAIN windows, button \in 1..3 : button_press(id, button)
    \/ \E id \in DOMAIN windows : on_focus_out(id)
    \/ FocusCheckDue
    \/ AutoCloseDue
    \/ Tick

\* A PopupManager driven directly from the UI thread: any show, with or
\* without text and position, and any close_current.
PopupCall ==
    \/ \E position \in Points \cup {NoPoint} :
          next_id <= MaxPopups /\ show("app", <<"text", 0>>, position, "main")
    \/ \E text \in {Nothing, EmptyText}, position \in Points \cup {NoPoint} :
          show("app", text, position, "main")
    \/ close_current("app", "main")

PopupNext ==
    /\ \/ PopupCall
       \/ Dismissal
       \/ button_press(0, 1)
       \/ \E p \in Points : MoveCursor(p)
    /\ UNCHANGED <<monVars, capVars, geoVars, appVars, auxVars>>

(***************************************************************************)
(* src/main.py: TextDisplayApp                                             *)
(***************************************************************************)
\* TextDisplayApp.__init__
AppInit ==
    /\ app_state = "new"
    /\ ui_queue = <<>>
    /\ hk_pc = "new"
    /\ nreq = 0
    /\ req_pos = <<>>
    /\ lookups = {}
    /\ upd_pc = "new"
    /\ newest_result = 0
    /\ last_absent = FALSE
    /\ enqueued_late = FALSE
    /\ applied = {}
    /\ placeholders_shown = {}

\* root.after(0, f) called on `thread`: f runs later on the Tk main-loop thread.
after_runs_on_caller(thread) == thread

after_runs_on(thread) == "main"

\* root.after(0, f): Tk runs the callbacks handed to it in the order of the
\* calls, f behind those already waiting.
root_after_lifo(queue, f) == <<f>> \o queue

root_after(queue, f) == Append(queue, f)

\* lookup_translation, `if translations: ... else: ...`
display_text_fallback_only(translations) == "No translation found"

display_text(translations) ==
    IF translations THEN "formatted" ELSE "No translation found"

\* The position _on_hotkey_pressed passes with the "Thinking..." placeholder:
\* position=cursor_pos, the cursor position it captured.
placeholder_position(cursor_pos) == cursor_pos

\* _on_hotkey_pressed, `if text:` -- the press is handled further only when
\* the capture returned a text.
capture_ignored(captured) == TRUE

capture_has_text(captured) == captured

\* run(): start the hotkey monitor and the update-check thread, enter mainloop.
run ==
    /\ app_state = "new"
    /\ app_state' = "mainloop"
    /\ running' = TRUE
    /\ hk_pc' = "poll"
    /\ upd_pc' = "sleeping"
    /\ UNCHANGED <<ui_queue, nreq, req_pos, lookups, newest_result, last_absent,
                   enqueued_late, applied, placeholders_shown>>
    /\ UNCHANGED popVars

\* The hotkey thread's `while self.running:` finds the monitor stopped.
hotkey_loop_exit ==
    /\ hk_pc = "poll"
    /\ ~running
    /\ hk_pc' = "done"
    /\ UNCHANGED <<app_state, ui_queue, nreq, req_pos, lookups, upd_pc,
                   newest_result, last_absent, running, enqueued_late, applied, placeholders_shown>>
    /\ UNCHANGED popVars

\* A poll tick of the running monitor invokes _on_hotkey_pressed, here up to
\* root.after: capture the selection; with a text, read the cursor position
\* and hand the placeholder show to the UI thread. captured is FALSE when
\* get_selected_text returned None.
on_hotkey_pressed(captured) ==
    /\ hk_pc = "poll"
    /\ running
    /\ nreq < MaxRequests
    /\ last_absent' = ~captured
    /\ IF capture_has_text(captured)
       THEN /\ nreq' = nreq + 1
            /\ req_pos' = Append(req_pos, cursor)
            /\ ui_queue' = root_after(ui_queue,
                   [kind |-> "placeholder", req |-> nreq + 1,
                    position |-> placeholder_position(cursor),
                    by |-> after_runs_on("hotkey"),
                    display |-> "Thinking..."])
            /\ hk_pc' = "spawn"
       ELSE UNCHANGED <<nreq, req_pos, ui_queue, hk_pc>>
    /\ UNCHANGED <<app_state, lookups, upd_pc, newest_result, running,
                   enqueued_late, applied, placeholders_shown>>
    /\ UNCHANGED popVars

\* _on_hotkey_pressed, thread.start(): the lookup thread of the request runs.
start_lookup_thread ==
    /\ hk_pc = "spawn"
    /\ lookups' = lookups \cup {nreq}
    /\ hk_pc' = "poll"
    /\ UNCHANGED <<app_state, ui_queue, nreq, req_pos, upd_pc,
                   newest_result, last_absent, running, enqueued_late, applied, placeholders_shown>>
    /\ UNCHANGED popVars

\* lookup_translation of request r: the lookup returns, with translations or
\* with an empty list (nothing found, timeout, any failure: lookup raises
\* nothing), and the result show, without a position, is handed to the UI
\* thread; the thread ends.
lookup_translation(r, translations) ==
    /\ r \in lookups
    /\ lookups' = lookups \ {r}
    /\ ui_queue' = root_after(ui_queue,
           [kind |-> "result", req |-> r, position |-> NoPoint,
            by |-> after_runs_on("lookup"),
            display |-> display_text(translations)])
    /\ enqueued_late' = (enqueued_late \/ app_state = "stopped")
    /\ UNCHANGED <<app_state, hk_pc, nreq, req_pos, upd_pc,
                   newest_result, last_absent, running, applied, placeholders_shown>>
    /\ UNCHANGED popVars

\* _check_for_updates, check(): after its sleep the thread asks the update
\* checker and, with an update, hands show_update_notification to the UI thread.
update_check(found) ==
    /\ upd_pc = "sleeping"
    /\ upd_pc' = "done"
    /\ ui_queue' = IF found
                   THEN root_after(ui_queue,
                            [kind |-> "update", req |-> 0,
                             position |-> <<20, 15>>,
                             by |-> after_runs_on("update"),
                             display |-> "notification"])
                   ELSE ui_queue
    /\ UNCHANGED <<app_state, hk_pc, nreq, req_pos, lookups,
                   newest_result, last_absent, running, enqueued_late, applied, placeholders_shown>>
    /\ UNCHANGED popVars

\* root.mainloop(): callbacks and window events are handled while it runs.
mainloop_runs_always(state) == TRUE

mainloop_runs(state) == state = "mainloop"

\* mainloop runs the oldest root.after callback: the application manager's
\* show, or show_update_notification, which calls show of its temporary
\* manager with position=(center_x, center_y) and, show having raised, never
\* reaches its bind calls. Tk reports an exception of a callback and goes on.
\* Only a show that binds displays a result.
ui_run ==
    /\ mainloop_runs(app_state)
    /\ ui_queue # <<>>
    /\ LET c == Head(ui_queue)
       IN  /\ show(IF c.kind = "update" THEN "update" ELSE "app",
                   <<c.kind, c.req>>, c.position, c.by)
           /\ newest_result' = IF /\ c.kind = "result"
                                  /\ show_accepts(c.position)
                                  /\ c.req > newest_result
                               THEN c.req ELSE newest_result
    /\ ui_queue' = Tail(ui_queue)
    /\ applied' = applied \cup {<<Head(ui_queue).kind, Head(ui_queue).req>>}
    /\ placeholders_shown' =
           IF Head(ui_queue).kind = "placeholder"
                  /\ show_accepts(Head(ui_queue).position)
           THEN placeholders_shown \cup {Head(ui_queue).req}
           ELSE placeholders_shown
    /\ UNCHANGED <<app_state, hk_pc, nreq, req_pos, lookups, upd_pc, last_absent,
                   running, enqueued_late>>

\* mainloop ends (interrupt or teardown) and _cleanup runs on the same thread:
\* monitor.stop() and popup_manager.close_current().
cleanup ==
    /\ app_state = "mainloop"
    /\ app_state' = "stopped"
    /\ running' = FALSE
    /\ close_current("app", "main")
    /\ UNCHANGED <<ui_queue, hk_pc, nreq, req_pos, lookups, upd_pc,
                   newest_result, last_absent,
                   enqueued_late, applied, placeholders_shown>>

\* Tk handles window events only while mainloop runs.
ui_event ==
    /\ mainloop_runs(app_state)
    /\ Dismissal
    /\ UNCHANGED <<appVars, running>>

move_cursor ==
    /\ \E p \in Points : MoveCursor(p)
    /\ UNCHANGED <<appVars, running>>

\* The steps of the application's own threads.
AppThreads ==
    \/ run
    \/ hotkey_loop_exit
    \/ \E captured \in BOOLEAN : on_hotkey_pressed(captured)
    \/ start_lookup_thread
    \/ \E r \in lookups, translations \in BOOLEAN :
          lookup_translation(r, translations)
    \/ \E found \in BOOLEAN : update_check(found)
    \/ ui_run
    \/ cleanup

AppNext ==
    /\ \/ AppThreads
       \/ ui_event
       \/ move_cursor
    /\ UNCHANGED <<mon_class, hotkeys, keys_down, triggered, triggered_states,
                   mpc, idx, scan_i, obs, prev_obs, fired, checked, raised,
                   raised_ever, raised_last, scen, seen_release, checked_after, fired_again,
                   stop_pc, checked_after_stop, called_after_stop,
                   rechecked_after_stop>>
    /\ UNCHANGED <<capVars, geoVars, auxVars>>

\* The same with the mouse and the popups left alone by the user.
AppThreadsNext ==
    /\ AppThreads
    /\ UNCHANGED <<mon_class, hotkeys, keys_down, triggered, triggered_states,
                   mpc, idx, scan_i, obs, prev_obs, fired, checked, raised,
                   raised_ever, raised_last, scen, seen_release, checked_after, fired_again,
                   stop_pc, checked_after_stop, called_after_stop,
                   rechecked_after_stop>>
    /\ UNCHANGED <<capVars, geoVars, auxVars>>

\* A running monitor that is stopped once and not started again.
StopNext ==
    /\ \/ \E k \in Keys : KeyDown(k)
       \/ \E k \in Keys : KeyUp(k)
       \/ monitor_loop
       \/ is_pressed_step
       \/ \E raises \in BOOLEAN : callback_ends(raises)
       \/ stop
       \/ stop_returns
    /\ UNCHANGED <<capVars, geoVars, popVars, appVars, auxVars>>

(***************************************************************************)
(* lexin_api.py: LexinAPI                                                  *)
(***************************************************************************)
\* Entries of a response, each a dict {id, type, text} or something that is
\* not a dict: the Norwegian and the English headword of two words, a
\* headword without text, a part of speech.
Entry(id, type, text) == [id |-> id, type |-> type, text |-> text]
BadEntry == Entry(0, "not a dict", "")
EntryChoices ==
    {Entry(id, type, "w") : id \in {1, 2}, type \in {"E-lem", "B-lem"}}
        \cup {Entry(1, "E-lem", ""), Entry(1, "B-kat", "n"), BadEntry}

\* data['result'][0] of a well-formed response: up to MaxEntries entries.
EntryLists == UNION {[1..n -> EntryChoices] : n \in 0..MaxEntries}

\* What the request comes to: urlopen raises (URLError, timeout), the body
\* does not decode, is not JSON, is JSON but not a dict, has no 'result', an
\* empty one, one that cannot be indexed, or a list of entries.
ResponseKinds ==
    {"urlerror", "timeout", "decode", "json", "notdict", "noresult",
     "emptyresult", "badresult", "entries"}

Responses ==
    {[kind |-> k, entries |-> <<>>] : k \in ResponseKinds \ {"entries"}}
        \cup {[kind |-> "entries", entries |-> es] : es \in EntryLists}

\* The max_results a caller passes.
MaxResultsChoices == {0, 1, 2}

\* What a function yields: a list or an exception in flight.
PyList(v) == [k |-> "list", v |-> v]
PyRaise == [k |-> "exc", v |-> <<>>]

\* The ids of the entries in the order of their first occurrence: the keys
\* of entries_by_id.
RECURSIVE FirstIds(_, _)
FirstIds(es, seen) ==
    IF es = <<>> THEN <<>>
    ELSE IF Head(es).id \in seen THEN FirstIds(Tail(es), seen)
    ELSE <<Head(es).id>> \o FirstIds(Tail(es), seen \cup {Head(es).id})

\* The text of the last entry of the given id and type, "" when there is none.
RECURSIVE LastText(_, _, _)
LastText(es, id, type) ==
    IF es = <<>> THEN ""
    ELSE LET e == es[Len(es)]
         IN  IF e.id = id /\ e.type = type THEN e.text
             ELSE LastText(SubSeq(es, 1, Len(es) - 1), id, type)

\* The Translation of each id in ids that has both headwords.
RECURSIVE Translations(_, _)
Translations(es, ids) ==
    IF ids = <<>> THEN <<>>
    ELSE LET norwegian == LastText(es, Head(ids), "E-lem")
             english == LastText(es, Head(ids), "B-lem")
             rest == Translations(es, Tail(ids))
         IN  IF norwegian # "" /\ english # ""
             THEN <<[id |-> Head(ids), norwegian |-> norwegian,
                     english |-> english,
                     part_of_speech |-> LastText(es, Head(ids), "B-kat")]>>
                      \o rest
             ELSE rest

\* LexinAPI._parse_results on the decoded data.
parse_results(resp) ==
    CASE resp.kind \in {"notdict", "badresult"} -> PyRaise
      [] resp.kind \in {"noresult", "emptyresult"} -> PyList(<<>>)
      [] OTHER ->
            IF \E i \in 1..Len(resp.entries) : resp.entries[i] = BadEntry
            THEN PyRaise
            ELSE PyList(Translations(resp.entries, FirstIds(resp.entries, {})))

\* translations[:max_results]
slice_all(v, n) == v

slice_to(v, n) == IF n < Len(v) THEN SubSeq(v, 1, n) ELSE v

\* The body of lookup inside its try.
lookup_body(resp, max_results) ==
    IF resp.kind \in {"urlerror", "timeout", "decode", "json"} THEN PyRaise
    ELSE LET translations == parse_results(resp)
         IN  IF translations.k = "exc" THEN PyRaise
             ELSE PyList(slice_to(translations.v, max_results))

\* except Exception: return []
except_reraises(v) == v

except_returns_empty(v) == IF v.k = "exc" THEN PyList(<<>>) ELSE v

\* No lookup under way.
LexinIdle ==
    /\ lex_in = [resp |-> [kind |-> "noresult", entries |-> <<>>],
                 max_results |-> 0]
    /\ lex_called = FALSE
    /\ lex_ret = PyList(<<>>)

\* A lookup about to be made, the service about to answer anything.
LexinInit ==
    /\ lex_in \in [resp : Responses, max_results : MaxResultsChoices]
    /\ lex_called = FALSE
    /\ lex_ret = PyList(<<>>)

\* LexinAPI.lookup(word, max_results)
lookup ==
    /\ ~lex_called
    /\ lex_called' = TRUE
    /\ lex_ret' = except_returns_empty(lookup_body(lex_in.resp, lex_in.max_results))
    /\ UNCHANGED lex_in

LexinNext ==
    lookup /\ UNCHANGED <<monVars, capVars, geoVars, popVars, appVars, updVars,
                          hookVars, monoVars, rsVars>>

(***************************************************************************)
(* src/update_checker.py: UpdateChecker                                    *)
(***************************************************************************)
\* UpdateChecker.CHECK_INTERVAL_HOURS
CHECK_INTERVAL_HOURS == 24

\* The cache file: absent, present but unreadable as {'last_check': number},
\* or holding the hour of the last check.
CacheMissing == [state |-> "missing", last_check |-> 0]
CacheCorrupt == [state |-> "corrupt", last_check |-> 0]
CacheValid(t) == [state |-> "valid", last_check |-> t]

\* No call made yet.
NoCheck ==
    [called |-> FALSE, force |-> FALSE, api |-> "fail", file |-> "fail",
     write |-> "ok", at |-> 0]

\* should_check: True when the file is missing, when reading it raises, and
\* when hours_since_check >= CHECK_INTERVAL_HOURS.
should_check_always(c, now) == TRUE

should_check(c, now) ==
    IF c.state # "valid" THEN TRUE
    ELSE now - c.last_check >= CHECK_INTERVAL_HOURS

\* mark_checked: write {'last_check': time.time()}; a failure is swallowed
\* and leaves the file as it was.
mark_checked(c, now, write) == IF write = "ok" THEN CacheValid(now) ELSE c

\* `if not force and not self.should_check(): return None`
check_runs(force, c, now) == force \/ should_check(c, now)

\* The checker of an installation: the clock somewhere, the cache file in
\* any state, its last check at most a few days back or, the clock having
\* been set back, ahead.
UpdaterInit ==
    /\ upd_now = CHECK_INTERVAL_HOURS + 6
    /\ cache \in {CacheMissing, CacheCorrupt}
                    \cup {CacheValid(t) : t \in {0, 6, 7, 29, 30, 40}}
    /\ upd_call = NoCheck
    /\ upd_requests = 0
    /\ upd_marked = FALSE
    /\ upd_ret = "none"

\* The checker for the specifications that do not call it.
UpdaterIdle ==
    /\ upd_now = 0
    /\ cache = CacheMissing
    /\ upd_call = NoCheck
    /\ upd_requests = 0
    /\ upd_marked = FALSE
    /\ upd_ret = "none"

\* Time passes.
Advance(h) ==
    /\ upd_now + h <= MaxClock
    /\ upd_now' = upd_now + h
    /\ UNCHANGED <<cache, upd_call, upd_requests, upd_marked, upd_ret>>

\* check_for_updates(force). api and file are what _check_github_api and
\* _check_version_file would come to: "fail" (None: the request or its parsing
\* raised), "same" (an UpdateInfo that is not newer) or "newer"; the version
\* file is asked only when the API gave None. write is what writing the cache
\* file comes to.
check_for_updates(force, api, file, write) ==
    /\ IF ~check_runs(force, cache, upd_now)
       THEN /\ upd_requests' = 0
            /\ upd_marked' = FALSE
            /\ upd_ret' = "none"
            /\ UNCHANGED cache
            /\ upd_call' = [called |-> TRUE, force |-> force, api |-> "fail",
                            file |-> "fail", write |-> "ok", at |-> upd_now]
       ELSE LET update_info == IF api # "fail" THEN api ELSE file
            IN  /\ upd_requests' = IF api = "fail" THEN 2 ELSE 1
                /\ upd_marked' = TRUE
                /\ cache' = mark_checked(cache, upd_now, write)
                /\ upd_ret' = IF update_info = "newer" THEN "update" ELSE "none"
                /\ upd_call' = [called |-> TRUE, force |-> force, api |-> api,
                                file |-> IF api = "fail" THEN file ELSE "fail",
                                write |-> write, at |-> upd_now]
    /\ UNCHANGED upd_now

UpdaterNext ==
    /\ \/ \E h \in {1, CHECK_INTERVAL_HOURS - 1} : Advance(h)
       \/ \E force \in BOOLEAN, api \in {"fail", "same", "newer"},
             file \in {"fail", "same", "newer"}, write \in {"ok", "fail"} :
                check_for_updates(force, api, file, write)
    /\ UNCHANGED <<monVars, capVars, geoVars, popVars, appVars, lexVars,
                   hookVars, monoVars, rsVars>>

(***************************************************************************)
(* hotkey.py: start_alt_n_hotkey; norsk_lookup.py: main                    *)
(***************************************************************************)
\* `for _ in range(100):` -- the polls start_alt_n_hotkey waits for the hook.
WaitPolls == 100

\* VK_MENU, VK_P, VK_N and any other virtual key.
ChordKeys == {"VK_MENU", "VK_P", "VK_N"}
VKs == ChordKeys \cup {"VK_OTHER"}

\* wParam of a hook call.
KeyDownMsgs == {"WM_KEYDOWN", "WM_SYSKEYDOWN"}
KeyUpMsgs == {"WM_KEYUP", "WM_SYSKEYUP"}
Msgs == KeyDownMsgs \cup KeyUpMsgs \cup {"WM_OTHER"}

\* How a call ends: it returns, or raises an Exception, or raises a
\* BaseException that is not an Exception.
Outcomes == {"returns", "Exception", "BaseException"}

\* except Exception: ...
catch_exception(o) == IF o = "Exception" THEN "returns" ELSE o

\* except: pass
catch_nothing(o) == o

catch_all(o) == "returns"

\* No event handled yet.
NoEvent ==
    [seen |-> FALSE, case |-> "none", next_calls |-> 0, next_ret |-> 0,
     ret |-> <<>>]

\* main() before start_alt_n_hotkey.
HookInit ==
    /\ hp_main = "start"
    /\ hp_polls = 0
    /\ hp_thread = "new"
    /\ hook_id = 0
    /\ hook_error = FALSE
    /\ os_hooked = FALSE
    /\ stop_event = FALSE
    /\ runner = "none"
    /\ keys_pressed = {}
    /\ hk_triggered = FALSE
    /\ hook_ev = NoEvent

\* start_alt_n_hotkey: t.start(), then the wait loop.
start_thread ==
    /\ hp_main = "start"
    /\ hp_main' = "waiting"
    /\ hp_thread' = "installing"
    /\ UNCHANGED <<hp_polls, hook_id, hook_error, os_hooked, stop_event,
                   runner, keys_pressed, hk_triggered, hook_ev>>

\* thread_proc: SetWindowsHookExW returns a handle, returns 0, or raises.
install_hook(result) ==
    /\ hp_thread = "installing"
    /\ IF result = "handle"
       THEN /\ hook_id' = 1
            /\ os_hooked' = TRUE
            /\ hp_thread' = "loop"
            /\ UNCHANGED hook_error
       ELSE /\ hook_error' = TRUE
            /\ hp_thread' = "failed"
            /\ UNCHANGED <<hook_id, os_hooked>>
    /\ UNCHANGED <<hp_main, hp_polls, stop_event, runner, keys_pressed,
                   hk_triggered, hook_ev>>

\* One iteration of the wait loop: break when the hook id or the error is
\* there, else Sleep(10); the loop ends after WaitPolls iterations. The
\* counter is dead once the loop is left.
wait_poll ==
    /\ hp_main = "waiting"
    /\ IF hook_id # 0 \/ hook_error
       THEN hp_main' = "after_wait" /\ hp_polls' = 0
       ELSE IF hp_polls + 1 = WaitPolls
       THEN hp_main' = "after_wait" /\ hp_polls' = 0
       ELSE hp_main' = "waiting" /\ hp_polls' = hp_polls + 1
    /\ UNCHANGED <<hp_thread, hook_id, hook_error, os_hooked, stop_event,
                   runner, keys_pressed, hk_triggered, hook_ev>>

\* `if state["error"]: raise state["error"]`, else the runner is returned
\* with state["hook_id"] as it is now and main() enters root.mainloop(); the
\* exception leaves main() before mainloop.
finish_start ==
    /\ hp_main = "after_wait"
    /\ IF hook_error
       THEN hp_main' = "raised" /\ UNCHANGED runner
       ELSE /\ runner' = IF hook_id # 0 THEN "hook" ELSE "no_hook"
            /\ hp_main' = "mainloop"
    /\ UNCHANGED <<hp_polls, hp_thread, hook_id, hook_error, os_hooked,
                   stop_event, keys_pressed, hk_triggered, hook_ev>>

\* root.mainloop() ends and `finally: runner.stop()` runs: the stop event is
\* set and the hook is unregistered when the runner holds its id.
mainloop_exit ==
    /\ hp_main = "mainloop"
    /\ hp_main' = "exited"
    /\ stop_event' = TRUE
    /\ os_hooked' = IF runner = "hook" THEN FALSE ELSE os_hooked
    /\ UNCHANGED <<hp_polls, hp_thread, hook_id, hook_error, runner,
                   keys_pressed, hk_triggered, hook_ev>>

\* thread_proc's message loop, `while not stop_event.is_set()`, ends.
message_loop_exit ==
    /\ hp_thread = "loop"
    /\ stop_event
    /\ hp_thread' = "done"
    /\ UNCHANGED <<hp_main, hp_polls, hook_id, hook_error, os_hooked,
                   stop_event, runner, keys_pressed, hk_triggered, hook_ev>>

\* The chord test of low_level_keyboard_proc: GetAsyncKeyState reports all
\* three keys down and the hotkey has not triggered yet.
chord_matched(down, done) == ChordKeys \subseteq down /\ ~done

\* low_level_keyboard_proc(nCode, wParam, lParam), called by the system while
\* the hook is installed and its thread pumps messages. decode is what reading
\* the key code from lParam comes to, down the keys GetAsyncKeyState reports,
\* called what callback() comes to, next_result what CallNextHookEx returns.
\* An exception the handlers do not catch leaves the procedure before its
\* return statement.
low_level_keyboard_proc(nCode, wParam, vk, decode, down, called, next_result) ==
    LET processes == nCode >= 0
        decoded == processes /\ decode = "returns"
        keydown == decoded /\ wParam \in KeyDownMsgs
        keyup == decoded /\ wParam \in KeyUpMsgs
        matched == keydown /\ chord_matched(down, hk_triggered)
        callback_end == IF matched THEN catch_exception(called) ELSE "returns"
        inner == IF processes /\ decode # "returns" THEN decode
                 ELSE callback_end
        outcome == catch_all(catch_exception(inner))
    IN  /\ hp_thread = "loop"
        /\ os_hooked
        /\ keys_pressed' = IF keydown THEN keys_pressed \cup {vk}
                           ELSE IF keyup THEN keys_pressed \ {vk}
                           ELSE keys_pressed
        /\ hk_triggered' = IF matched THEN TRUE
                           ELSE IF keyup /\ vk \in ChordKeys THEN FALSE
                           ELSE hk_triggered
        /\ hook_ev' =
              [seen |-> TRUE,
               case |-> IF ~processes THEN "skipped"
                        ELSE IF ~decoded THEN "decode_error"
                        ELSE IF ~matched THEN "unmatched"
                        ELSE IF called = "returns" THEN "matched"
                        ELSE "callback_raised",
               next_calls |-> IF outcome = "returns" THEN 1 ELSE 0,
               next_ret |-> next_result,
               ret |-> IF outcome = "returns" THEN <<next_result>> ELSE <<>>]
        /\ UNCHANGED <<hp_main, hp_polls, hp_thread, hook_id, hook_error,
                       os_hooked, stop_event, runner>>

\* The entry point for the specifications that do not run it.
HookIdle == HookInit

\* The calls the system makes of the hook procedure: a call not to be
\* processed (nCode < 0), a key code that cannot be read, a key going down
\* with the chord keys reported up, partly down or all down (the callback,
\* if called, returning or raising), a key going up, any other message.
HookCall(nCode, wParam, vk, decode, down, called, next_result) ==
    [nCode |-> nCode, wParam |-> wParam, vk |-> vk, decode |-> decode,
     down |-> down, called |-> called, next_result |-> next_result]

HookCalls ==
    UNION {
        {HookCall(-1, "WM_KEYDOWN", "VK_N", "returns", {}, "returns", r),
         HookCall(0, "WM_KEYDOWN", "VK_N", "Exception", {}, "returns", r),
         HookCall(0, "WM_OTHER", "VK_N", "returns", {}, "returns", r)}
        \cup {HookCall(0, m, vk, "returns", {}, "returns", r) :
                 m \in KeyUpMsgs, vk \in VKs}
        \cup {HookCall(0, m, vk, "returns", down, "returns", r) :
                 m \in KeyDownMsgs, vk \in VKs,
                 down \in {{}, {"VK_MENU", "VK_P"}}}
        \cup {HookCall(0, m, vk, "returns", ChordKeys, called, r) :
                 m \in KeyDownMsgs, vk \in VKs, called \in Outcomes}
        : r \in {0, 1}}

HookNext ==
    /\ \/ start_thread
       \/ \E result \in {"handle", "zero", "raise"} : install_hook(result)
       \/ wait_poll
       \/ finish_start
       \/ mainloop_exit
       \/ message_loop_exit
       \/ \E c \in HookCalls :
             low_level_keyboard_proc(c.nCode, c.wParam, c.vk, c.decode, c.down,
                                     c.called, c.next_result)
    /\ UNCHANGED <<monVars, capVars, geoVars, popVars, appVars, lexVars,
                   updVars, monoVars, rsVars>>

(***************************************************************************)
(* main.py: HotkeyMonitor and TextDisplayApp of the single-file entry      *)
(* point                                                                   *)
(***************************************************************************)

\* Most invocations of the callback that are counted.
MaxCalls == 3

\* HotkeyMonitor.__init__ and TextDisplayApp.__init__: running is True from
\* the start, keys_pressed is empty, the thread is not created yet.
MonoInit ==
    /\ mono_main = "init"
    /\ mono_thread = "new"
    /\ mono_running = TRUE
    /\ mono_keys_pressed = {}
    /\ mono_keys_down = {}
    /\ mono_calls = 0
    /\ mono_raised = FALSE

\* The entry point for the specifications that do not run it.
MonoIdle == MonoInit

\* The user presses or releases one of Alt, P, N.
mono_key_down(k) ==
    /\ k \notin mono_keys_down
    /\ mono_keys_down' = mono_keys_down \cup {k}
    /\ UNCHANGED <<mono_main, mono_thread, mono_running, mono_keys_pressed,
                   mono_calls, mono_raised>>

mono_key_up(k) ==
    /\ k \in mono_keys_down
    /\ mono_keys_down' = mono_keys_down \ {k}
    /\ UNCHANGED <<mono_main, mono_thread, mono_running, mono_keys_pressed,
                   mono_calls, mono_raised>>

\* TextDisplayApp.run up to root.mainloop(): the monitor thread is started.
mono_app_run ==
    /\ mono_main = "init"
    /\ mono_main' = "mainloop"
    /\ mono_thread' = "loop"
    /\ UNCHANGED <<mono_running, mono_keys_pressed, mono_keys_down,
                   mono_calls, mono_raised>>

\* TextDisplayApp.run, finally: mainloop has returned, monitor.stop() clears
\* the flag (the join that follows has a timeout and changes nothing).
mono_app_exit ==
    /\ mono_main = "mainloop"
    /\ mono_main' = "exited"
    /\ mono_running' = FALSE
    /\ UNCHANGED <<mono_thread, mono_keys_pressed, mono_keys_down,
                   mono_calls, mono_raised>>

\* HotkeyMonitor.run, `while self.running:`
mono_run_loop ==
    /\ mono_thread = "loop"
    /\ mono_thread' = IF mono_running THEN "check" ELSE "done"
    /\ UNCHANGED <<mono_main, mono_running, mono_keys_pressed,
                   mono_keys_down, mono_calls, mono_raised>>

\* HotkeyMonitor.check_keys up to the call of the callback: the three keys
\* are sampled; all down and 'triggered' not in keys_pressed adds it and
\* calls the callback, not all down discards it.
check_keys ==
    /\ mono_thread = "check"
    /\ IF Keys \subseteq mono_keys_down
       THEN IF "triggered" \notin mono_keys_pressed
            THEN /\ mono_keys_pressed' = mono_keys_pressed \cup {"triggered"}
                 /\ mono_thread' = "callback"
            ELSE /\ mono_thread' = "sleep"
                 /\ UNCHANGED mono_keys_pressed
       ELSE /\ mono_keys_pressed' = mono_keys_pressed \ {"triggered"}
            /\ mono_thread' = "sleep"
    /\ UNCHANGED <<mono_main, mono_running, mono_keys_down, mono_calls,
                   mono_raised>>

\* TextDisplayApp.on_hotkey: get_selected_text catches everything it raises
\* and returns a text or None; with a text, root.after(0, ...) is called
\* from the monitor thread, outside any try, and may raise (RuntimeError
\* when the main thread is not in its main loop, TclError).
on_hotkey(text, after) ==
    IF text /\ after = "raises" THEN "raises" ELSE "returns"

\* What HotkeyMonitor.run does with the outcome of self.callback(): neither
\* check_keys nor run has a try, so an exception ends run and the thread.
mono_after_callback(outcome) == IF outcome = "raises" THEN "dead" ELSE "sleep"

\* The callback invoked by check_keys ends.
mono_callback_ends(text, after) ==
    /\ mono_thread = "callback"
    /\ mono_thread' = mono_after_callback(on_hotkey(text, after))
    /\ mono_calls' = IF mono_calls < MaxCalls THEN mono_calls + 1 ELSE mono_calls
    /\ mono_raised' = (mono_raised \/ on_hotkey(text, after) = "raises")
    /\ UNCHANGED <<mono_main, mono_running, mono_keys_pressed,
                   mono_keys_down>>

\* HotkeyMonitor.run, time.sleep(0.05) is over.
mono_sleep_ends ==
    /\ mono_thread = "sleep"
    /\ mono_thread' = "loop"
    /\ UNCHANGED <<mono_main, mono_running, mono_keys_pressed,
                   mono_keys_down, mono_calls, mono_raised>>

MonoNext ==
    /\ \/ \E k \in Keys : mono_key_down(k)
       \/ \E k \in Keys : mono_key_up(k)
       \/ mono_app_run
       \/ mono_app_exit
       \/ mono_run_loop
       \/ check_keys
       \/ \E text \in BOOLEAN, after \in {"returns", "raises"} :
             mono_callback_ends(text, after)
       \/ mono_sleep_ends
    /\ UNCHANGED <<monVars, capVars, geoVars, popVars, appVars, lexVars,
                   updVars, hookVars, rsVars>>

(***************************************************************************)
(* hotkey_monitor.py: HotkeyMonitor.start / stop over several threads;     *)
(* src/text_capture.py: the session of the TextCapture its callback calls  *)
(***************************************************************************)

\* Most poll threads one monitor creates.
MaxThreads == 3

ThreadIds == 1..MaxThreads

\* HotkeyMonitor.__init__ and TextCapture.__init__, both on the UI thread:
\* not running, no thread, no session.
RestartInit ==
    /\ rs_running = FALSE
    /\ rs_triggered = FALSE
    /\ rs_thread = 0
    /\ rs_threads = <<>>
    /\ rs_caller = "idle"
    /\ rs_com_initialized = FALSE
    /\ rs_uia = FALSE
    /\ rs_com_threads = {}
    /\ rs_callers = {}

\* The monitor for the specifications that do not restart it.
RestartIdle == RestartInit

\* The poll threads that have not left _monitor_loop.
LiveThreads == {t \in DOMAIN rs_threads : rs_threads[t] # "done"}

\* start(), `if self.running: return`, then the flag is set and a new
\* thread is created and started.
start_guard(is_running, live) == is_running

rs_start ==
    /\ rs_caller = "idle"
    /\ IF start_guard(rs_running, LiveThreads)
       THEN UNCHANGED <<rs_running, rs_thread, rs_threads>>
       ELSE /\ Len(rs_threads) < MaxThreads
            /\ rs_running' = TRUE
            /\ rs_threads' = Append(rs_threads, "loop")
            /\ rs_thread' = Len(rs_threads) + 1
    /\ UNCHANGED <<rs_triggered, rs_caller, rs_com_initialized, rs_uia,
                   rs_com_threads, rs_callers>>

\* stop(), `if not self.running: return`, then the flag is cleared and the
\* thread, if there is one, is joined.
rs_stop ==
    /\ rs_caller = "idle"
    /\ IF ~rs_running
       THEN UNCHANGED <<rs_running, rs_caller>>
       ELSE /\ rs_running' = FALSE
            /\ rs_caller' = IF rs_thread # 0 THEN "joining" ELSE "idle"
    /\ UNCHANGED <<rs_triggered, rs_thread, rs_threads, rs_com_initialized,
                   rs_uia, rs_com_threads, rs_callers>>

\* stop(), self._thread.join(timeout=timeout) returns, the thread having
\* ended or the timeout having passed with the thread inside a callback
\* (outside one it ends within poll_rate, well before the timeout);
\* self._thread = None.
rs_join_returns ==
    /\ rs_caller = "joining"
    /\ rs_threads[rs_thread] \in {"done", "callback"}
    /\ rs_caller' = "idle"
    /\ rs_thread' = 0
    /\ UNCHANGED <<rs_running, rs_triggered, rs_threads, rs_com_initialized,
                   rs_uia, rs_com_threads, rs_callers>>

\* _monitor_loop of thread t, `while self.running:`
rs_monitor_loop(t) ==
    /\ rs_threads[t] = "loop"
    /\ rs_threads' = [rs_threads EXCEPT
                         ![t] = IF loop_continues(rs_running) THEN "check"
                                ELSE "done"]
    /\ UNCHANGED <<rs_running, rs_triggered, rs_thread, rs_caller,
                   rs_com_initialized, rs_uia, rs_com_threads, rs_callers>>

\* _check_hotkey of thread t, is_pressed() having returned `pressed`.
rs_check_hotkey(t, pressed) ==
    /\ rs_threads[t] = "check"
    /\ rs_triggered' = check_hotkey_triggered(pressed, rs_triggered)
    /\ rs_threads' = [rs_threads EXCEPT
                         ![t] = IF check_hotkey_invokes(pressed, rs_triggered)
                                THEN "callback" ELSE "sleep"]
    /\ UNCHANGED <<rs_running, rs_thread, rs_caller, rs_com_initialized,
                   rs_uia, rs_com_threads, rs_callers>>

\* _ensure_com_initialized: CoInitialize is called when the flag of the
\* TextCapture object is not set, whatever thread is calling.
com_init_needed(flag, t, done) == ~flag

\* The callback of thread t, _on_hotkey_pressed, ends. It has called
\* get_selected_text: _get_uia, with no automation object yet, calls
\* _ensure_com_initialized (CoInitialize unless the flag is set; the flag is
\* set whether CoInitialize raised or not) and CreateObject, which gives the
\* object or raises; with an object it touches neither.
rs_callback_ends(t, create) ==
    /\ rs_threads[t] = "callback"
    /\ rs_callers' = rs_callers \cup {t}
    /\ IF uia_missing(IF rs_uia THEN "uia" ELSE None)
       THEN /\ rs_com_threads' =
                  IF com_init_needed(rs_com_initialized, t, rs_com_threads)
                  THEN rs_com_threads \cup {t} ELSE rs_com_threads
            /\ rs_com_initialized' = TRUE
            /\ rs_uia' = (create = "ok")
       ELSE UNCHANGED <<rs_com_threads, rs_com_initialized, rs_uia>>
    /\ rs_threads' = [rs_threads EXCEPT ![t] = "sleep"]
    /\ UNCHANGED <<rs_running, rs_triggered, rs_thread, rs_caller>>

\* _monitor_loop of thread t, time.sleep(self.poll_rate) is over.
rs_sleep_ends(t) ==
    /\ rs_threads[t] = "sleep"
    /\ rs_threads' = [rs_threads EXCEPT ![t] = "loop"]
    /\ UNCHANGED <<rs_running, rs_triggered, rs_thread, rs_caller,
                   rs_com_initialized, rs_uia, rs_com_threads, rs_callers>>

RestartNext ==
    /\ \/ rs_start
       \/ rs_stop
       \/ rs_join_returns
       \/ \E t \in DOMAIN rs_threads : rs_monitor_loop(t)
       \/ \E t \in DOMAIN rs_threads, pressed \in BOOLEAN :
             rs_check_hotkey(t, pressed)
       \/ \E t \in DOMAIN rs_threads, create \in {"ok", "raises"} :
             rs_callback_ends(t, create)
       \/ \E t \in DOMAIN rs_threads : rs_sleep_ends(t)
    /\ UNCHANGED <<monVars, capVars, geoVars, popVars, appVars, lexVars,
                   updVars, hookVars, monoVars>>

\* The components the other specifications leave alone.
AuxIdle == LexinIdle /\ UpdaterIdle /\ HookIdle /\ MonoIdle /\ RestartIdle

Init ==
    MonitorInit /\ CaptureIdle /\ GeometryIdle /\ PopupDefault /\ AppInit
        /\ AuxIdle

\* One poll thread of a started monitor, with the keyboard changing under it.
SpecMonitor == Init /\ [][MonitorNext]_vars

\* The same monitor with stop(). The poll thread is scheduled and sleeps for
\* poll_rate only, a callback returns or raises, and join returns.
InitStop ==
    MonitorStarted /\ CaptureIdle /\ GeometryIdle /\ PopupDefault /\ AppInit
        /\ AuxIdle

SpecStop ==
    /\ InitStop
    /\ [][StopNext]_vars
    /\ WF_monVars(monitor_loop)
    /\ WF_monVars(is_pressed_step)
    /\ WF_monVars(\E raises \in BOOLEAN : callback_ends(raises))
    /\ WF_monVars(stop_returns)

\* A TextCapture object called again and again, the platform answering freely.
InitCapture ==
    MonitorIdle /\ CaptureInit /\ GeometryIdle /\ PopupDefault /\ AppInit
        /\ AuxIdle

SpecCapture == InitCapture /\ [][CaptureNext]_vars

\* Popups of several sizes placed for cursors on and off several layouts.
InitGeometry ==
    MonitorIdle /\ CaptureIdle /\ GeometryInit /\ PopupDefault /\ AppInit
        /\ AuxIdle

SpecGeometry == InitGeometry /\ [][GeometryNext]_vars

\* A PopupManager called from the UI thread, the user dismissing its popups.
InitPopup ==
    MonitorIdle /\ CaptureIdle /\ GeometryIdle /\ PopupInit /\ AppInit
        /\ AuxIdle

SpecPopup == InitPopup /\ [][PopupNext]_vars

\* The same with the Tk main loop running: time passes and the callbacks
\* that are due run.
SpecPopupLive ==
    /\ InitPopup
    /\ [][PopupNext]_vars
    /\ WF_popVars(Tick)
    /\ WF_popVars(FocusCheckDue)
    /\ WF_popVars(AutoCloseDue)

\* The application: hotkey thread, lookup threads, update thread, UI thread.
InitApp ==
    MonitorIdle /\ CaptureIdle /\ GeometryIdle /\ PopupDefault /\ AppInit
        /\ AuxIdle

Spec == InitApp /\ [][AppNext]_vars

\* The threads of the application, scheduled: the hotkey thread goes on from
\* root.after to thread.start(), and a lookup thread, whose request has a
\* timeout, runs to its end. The user presses the hotkey and leaves the
\* mouse and the popups alone.
SpecAppLive ==
    /\ InitApp
    /\ [][AppThreadsNext]_vars
    /\ WF_appVars(start_lookup_thread)
    /\ \A r \in 1..MaxRequests :
          WF_appVars(\E translations \in BOOLEAN :
                        lookup_translation(r, translations))

\* One dictionary lookup, the service answering anything.
InitLexin ==
    MonitorIdle /\ CaptureIdle /\ GeometryIdle /\ PopupDefault /\ AppInit
        /\ LexinInit /\ UpdaterIdle /\ HookIdle /\ MonoIdle
        /\ RestartIdle

SpecLexin == InitLexin /\ [][LexinNext]_vars

\* An update checker called again and again as time passes.
InitUpdater ==
    MonitorIdle /\ CaptureIdle /\ GeometryIdle /\ PopupDefault /\ AppInit
        /\ LexinIdle /\ UpdaterInit /\ HookIdle /\ MonoIdle
        /\ RestartIdle

SpecUpdater == InitUpdater /\ [][UpdaterNext]_vars

\* The hook-based entry point: the hook thread, the start-up wait, the
\* keyboard events the system hands to the hook procedure.
InitHook ==
    MonitorIdle /\ CaptureIdle /\ GeometryIdle /\ PopupDefault /\ AppInit
        /\ LexinIdle /\ UpdaterIdle /\ HookInit /\ MonoIdle
        /\ RestartIdle

SpecHook == InitHook /\ [][HookNext]_vars

\* The single-file entry point: the application, its monitor thread, the
\* keyboard.
InitMono ==
    MonitorIdle /\ CaptureIdle /\ GeometryIdle /\ PopupDefault /\ AppInit
        /\ LexinIdle /\ UpdaterIdle /\ HookIdle /\ MonoInit
        /\ RestartIdle

SpecMono == InitMono /\ [][MonoNext]_vars

\* One HotkeyMonitor started and stopped again and again, its poll threads
\* calling the one TextCapture of the application.
InitRestart ==
    MonitorIdle /\ CaptureIdle /\ GeometryIdle /\ PopupDefault /\ AppInit
        /\ LexinIdle /\ UpdaterIdle /\ HookIdle /\ MonoIdle /\ RestartInit

SpecRestart == InitRestart /\ [][RestartNext]_vars

(***************************************************************************)
(* Claims about the hotkey monitors (checked under SpecMonitor).           *)
(***************************************************************************)
\* The latest check of hotkey i was the first of a press interval: it observed
\* the chord down and the check before it did not.
RisingEdge(i) == obs[i] /\ ~prev_obs[i]

\* C1: a HotkeyMonitor invokes its callback exactly once per continuous press
\* interval, on the first tick of the interval: a check invokes the callback if
\* and only if it observes every chord key down and the previous check did not,
\* whatever the chord and the order its keys went down in.
C1_OncePerPressInterval ==
    mon_class = "HotkeyMonitor" => (fired[1] <=> RisingEdge(1))

\* C1 witness: the chord was observed down on two ticks in a row and the second
\* tick did not invoke the callback again.
C1_HeldNotRefired ==
    /\ mon_class = "HotkeyMonitor"
    /\ Len(hotkeys[1]) = 3
    /\ mpc = "loop"
    /\ obs[1] /\ prev_obs[1] /\ ~fired[1] /\ triggered

\* C8 as stated: with Alt+P+N held and the callback invoked once, releasing P
\* and pressing it again (Alt and N held) makes the callback run a second time:
\* once a check has observed the chord down after the second press, the
\* callback has been invoked again.
C8_RepressAlwaysFires ==
    (ScenTracked /\ scen = "repressed" /\ checked_after) => fired_again

\* C8 amended: the same, provided a poll tick observed the chord not pressed
\* while P was released.
C8_RepressFiresIfReleaseObserved ==
    (ScenTracked /\ scen = "repressed" /\ checked_after /\ seen_release)
        => fired_again

\* C8 witness: P was released, the release was observed, P was pressed again
\* and the callback was invoked a second time.
C8_SecondInvocation ==
    /\ ScenTracked /\ scen = "repressed"
    /\ seen_release /\ checked_after /\ fired_again
    /\ mpc = "callback"

\* C9: an exception raised by a callback does not stop the poll loop: the
\* thread never dies of it, and after it every check that starts a press
\* interval still invokes its callback, in a MultiHotkeyMonitor also for the
\* hotkeys checked later in the same tick.
C9_RaiseDoesNotStopLoop ==
    raised_ever =>
        /\ mpc # "dead"
        /\ \A i \in 1..Len(hotkeys) : RisingEdge(i) => fired[i]

\* C9 witness: in one tick of a MultiHotkeyMonitor the first hotkey's callback
\* raised and the second hotkey's callback was invoked after it.
C9_FiredAfterRaiseInSameTick ==
    /\ mon_class = "MultiHotkeyMonitor"
    /\ raised = {1}
    /\ idx = 2 /\ mpc = "callback" /\ fired[2]

\* C15: in a MultiHotkeyMonitor every registered hotkey is edge-triggered on
\* its own: its callback fires exactly at a check that finds its chord pressed
\* after a check that found it not pressed, whatever the other hotkeys do, and
\* its triggered flag is what its own latest check observed.
C15_IndependentEdgeTrigger ==
    mon_class = "MultiHotkeyMonitor" =>
        \A i \in 1..Len(hotkeys) :
            /\ fired[i] <=> RisingEdge(i)
            /\ i \in checked => (i \in triggered_states <=> obs[i])

\* C15 witness: the first hotkey is held over two checks, not firing again,
\* and in the same tick the second hotkey fires.
C15_SecondFiresWhileFirstHeld ==
    /\ mon_class = "MultiHotkeyMonitor"
    /\ Len(hotkeys) >= 2
    /\ {1, 2} \subseteq checked
    /\ obs[1] /\ prev_obs[1] /\ ~fired[1]
    /\ fired[2]

\* C16 as stated: once stop() has cleared the flag of a running monitor the
\* poll thread completes at most one further key check and so invokes at most
\* one further callback, the loop ends, and stop() returns, also while the
\* thread is inside a callback.
C16_OneFurtherCheck ==
    /\ [](/\ Cardinality(checked_after_stop) <= 1
          /\ Cardinality(called_after_stop) <= 1
          /\ ~rechecked_after_stop)
    /\ (stop_pc # "idle") ~> (mpc = "done")
    /\ (stop_pc = "joining") ~> (stop_pc = "returned")

\* C16 amended: once stop() has cleared the flag the poll thread completes at
\* most the pass in progress -- one further check and at most one further
\* callback invocation per registered hotkey, so one in all for a
\* HotkeyMonitor -- then the loop ends; and stop() returns, also while the
\* thread is inside a callback.
C16_OneFurtherPass ==
    /\ [](/\ ~rechecked_after_stop
          /\ called_after_stop \subseteq checked_after_stop
          /\ mon_class = "HotkeyMonitor" => Cardinality(checked_after_stop) <= 1)
    /\ (stop_pc # "idle") ~> (mpc = "done")
    /\ (stop_pc = "joining") ~> (stop_pc = "returned")

\* C16 witness: stop() has returned while the poll thread is inside a callback
\* that it invoked after the flag was cleared.
C16_StopReturnedDuringCallback ==
    /\ stop_pc = "returned"
    /\ mpc = "callback"
    /\ idx \in called_after_stop

\* The triggered state of hotkey i: self.triggered, or i in triggered_states.
Flag(i) ==
    IF mon_class = "HotkeyMonitor" THEN triggered ELSE i \in triggered_states

\* C34: the triggered state of a hotkey is set before its callback is
\* invoked and stays set when the callback raises: as long as no check has
\* observed the chord released since the raising callback, the state is set,
\* and the callback is invoked only for a hotkey whose state is not set.
C34_RaisingCallbackConsumesPress ==
    /\ [](mpc = "callback" => Flag(idx))
    /\ [](\A i \in HotkeyIds : raised_last[i] => Flag(i))
    /\ [][\A i \in HotkeyIds :
             (mpc # "callback" /\ mpc' = "callback" /\ idx' = i)
               => (~Flag(i) /\ ~raised_last[i])]_vars
    /\ [][\A i \in HotkeyIds :
             (mpc = "callback" /\ idx = i /\ raised_last'[i])
               => (Flag(i))']_vars

\* C34 witness: the callback raised, the chord stayed down, and the next
\* check of the hotkey observed it pressed and did not invoke the callback.
C34_HeldAfterRaiseNotRetried ==
    /\ mpc = "loop"
    /\ raised_last[1]
    /\ raised = {}
    /\ obs[1] /\ prev_obs[1]
    /\ ~fired[1]

(***************************************************************************)
(* Claims about selection capture (checked under SpecCapture).             *)
(***************************************************************************)
\* Strategy i produces a non-empty trimmed string on the focused control: it
\* gets a text that holds a character other than whitespace.
Productive(i) ==
    /\ control[i].kind = "text"
    /\ \E j \in DOMAIN control[i].text : control[i].text[j] # " "

\* The latest call got a focused element and so went through the strategies.
ReachedStrategies == cap_in.called /\ uia # None /\ cap_in.focus = "element"

\* t is the text of strategy i with the whitespace at both ends removed.
IsTrimmedTextOf(t, i) ==
    /\ t # <<>> /\ t[1] # " " /\ t[Len(t)] # " "
    /\ \E lo, hi \in DOMAIN control[i].text :
          /\ t = SubSeq(control[i].text, lo, hi)
          /\ \A j \in DOMAIN control[i].text :
                (j < lo \/ j > hi) => control[i].text[j] = " "

\* C5: get_selected_text tries rich-text selection, then extended
\* text-selection, then scalar value, and returns the trimmed text of the first
\* of them, in that order, that produces a non-empty trimmed string; a
\* lower-priority strategy's text is never returned in its place.
C5_FirstProductiveStrategyWins ==
    ReachedStrategies =>
        \A i \in 1..3 :
            (Productive(i) /\ \A j \in 1..(i - 1) : ~Productive(j))
                => /\ cap_ret = PyStr(Strip(control[i].text))
                   /\ IsTrimmedTextOf(cap_ret.t, i)

\* C5 witness: strategy 1 produced nothing, strategies 2 and 3 both produced a
\* text, and the call returned strategy 2's text without its leading blank.
C5_SecondBeatsThird ==
    /\ ReachedStrategies
    /\ ~Productive(1) /\ Productive(2) /\ Productive(3)
    /\ control[2].text = <<" ", "b">>
    /\ cap_ret = PyStr(<<"b">>)

\* C6: when strategy 1 raises and strategy 2 yields non-empty text the call
\* returns strategy 2's trimmed text; no failure of a strategy, of the
\* focused-element query or of the session initialization leaves the call as an
\* exception; and a call that got a focused element returns absent only when
\* every strategy failed or produced nothing.
C6_FailuresFallThrough ==
    cap_in.called =>
        /\ cap_ret.k # "exc"
        /\ (ReachedStrategies /\ control[1].kind = "raise" /\ Productive(2))
              => cap_ret = PyStr(Strip(control[2].text))
        /\ (ReachedStrategies /\ cap_ret = PyNone)
              => \A i \in 1..3 : ~Productive(i)

\* C6 witness: strategy 1 raised, strategy 2 had text, and the text came back.
C6_RaiseThenText ==
    /\ ReachedStrategies
    /\ control[1].kind = "raise" /\ Productive(2)
    /\ cap_ret = PyStr(Strip(control[2].text))

\* C17: get_selected_text returns absent when there is no focused element
\* and when every strategy yields nothing, an empty text or whitespace only;
\* what it returns otherwise is a non-empty string without whitespace at
\* either end, never an empty or whitespace-only string.
C17_AbsentOrTrimmedText ==
    cap_in.called =>
        /\ cap_ret.k \in {"none", "str"}
        /\ cap_ret.k = "str" =>
              /\ cap_ret.t # <<>>
              /\ cap_ret.t[1] # " "
              /\ cap_ret.t[Len(cap_ret.t)] # " "
        /\ (uia # None /\ cap_in.focus = "none") => cap_ret = PyNone
        /\ (ReachedStrategies /\ \A i \in 1..3 : ~Productive(i))
              => cap_ret = PyNone

\* C17 witness: every strategy got a text of whitespace only, and the call
\* returned absent.
C17_WhitespaceOnlyIsAbsent ==
    /\ ReachedStrategies
    /\ \A i \in 1..3 : control[i].kind = "text" /\ control[i].text # <<>>
    /\ \A i \in 1..3 : ~Productive(i)
    /\ cap_ret = PyNone

\* C18: when strategies 1 to 3 all fail or yield no text and the legacy
\* accessibility value query yields a non-empty text, get_selected_text makes
\* that query last and returns its trimmed text instead of absent.
C18_LegacyQueryIsLastResort ==
    (/\ ReachedStrategies
     /\ \A i \in 1..3 : ~Productive(i)
     /\ Productive(4))
        => cap_ret = PyStr(Strip(control[4].text))

\* C19: session initialization is lazy and idempotent. Before the first call
\* nothing is initialized; after it COM was initialized exactly once, however
\* many calls follow and whatever CoInitialize answered; at most one
\* automation object is ever created; the first call creates it when
\* CreateObject succeeds; a call made when the object exists changes nothing
\* of the initialization; and no call lets an error out.
C19_LazyIdempotentInit ==
    /\ [](/\ com_inits <= 1 /\ uia_created <= 1
          /\ ~cap_in.called =>
                (com_inits = 0 /\ uia_created = 0 /\ uia = None
                    /\ ~com_initialized)
          /\ cap_in.called => (com_inits = 1 /\ com_initialized)
          /\ (uia # None) <=> (uia_created = 1)
          /\ cap_ret.k # "exc")
    /\ [][/\ (~cap_in.called /\ cap_in'.called /\ cap_in'.create = "ok")
                => (uia' # None /\ uia_created' = 1)
          /\ (cap_in.called /\ cap_in'.called)
                => (com_inits' = com_inits /\ com_initialized' = com_initialized)
          /\ (uia # None /\ cap_in'.called)
                => (uia' = uia /\ uia_created' = uia_created)]_vars

\* A repeated call was made after COM initialization and object creation.
C19_RepeatedCallAfterInit ==
    /\ cap_repeated
    /\ uia # None
    /\ com_inits = 1
    /\ uia_created = 1

\* C20: a get_selected_text call, whatever it returns (a text, absent after
\* no strategy produced one, absent after a failure), leaves the clipboard as
\* it was and synthesizes no key event.
C20_PureQuery ==
    [][cap_in'.called =>
          (clipboard' = clipboard /\ synth_keys' = synth_keys
              /\ synth_keys' = <<>>)]_vars

\* Calls have returned a text, and a later one came back absent.
C20_CalledWithEveryOutcome ==
    /\ cap_repeated
    /\ cap_ret = PyNone
    /\ cap_in.focus = "raise"
    /\ clipboard = "user data"

(***************************************************************************)
(* Claims about popup placement (checked under SpecGeometry).              *)
(***************************************************************************)
\* C10: for any cursor point, any configured offset and any popup narrower
\* and lower than the monitor chosen for the cursor, _position_popup keeps the
\* whole popup rectangle within that monitor.
C10_PopupWithinMonitor ==
    (/\ geo_placed /\ geo_monitor # NoMonitor
     /\ popup_size[1] < width(geo_monitor)
     /\ popup_size[2] < height(geo_monitor))
        => /\ geo_monitor.left <= geo_xy[1]
           /\ geo_xy[1] + popup_size[1] <= geo_monitor.right
           /\ geo_monitor.top <= geo_xy[2]
           /\ geo_xy[2] + popup_size[2] <= geo_monitor.bottom

\* C24: when no monitor is found for the cursor, a popup narrower and lower
\* than the screen is placed with its whole rectangle on the screen:
\* 0 <= x, x + width <= screen width, 0 <= y, y + height <= screen height.
C24_FallbackWithinScreen ==
    (/\ geo_placed /\ geo_monitor = NoMonitor
     /\ popup_size[1] < ScreenSize[1]
     /\ popup_size[2] < ScreenSize[2])
        => /\ 0 <= geo_xy[1]
           /\ geo_xy[1] + popup_size[1] <= ScreenSize[1]
           /\ 0 <= geo_xy[2]
           /\ geo_xy[2] + popup_size[2] <= ScreenSize[2]

\* The monitors of the layout whose rectangle holds the cursor, the right and
\* the bottom edge excluded.
Holding ==
    {i \in 1..Len(monitors) :
        /\ monitors[i].left <= geo_cursor[1] /\ geo_cursor[1] < monitors[i].right
        /\ monitors[i].top <= geo_cursor[2] /\ geo_cursor[2] < monitors[i].bottom}

\* C13: for a point inside exactly one of the non-overlapping monitor
\* rectangles, containment taken half-open on the right and bottom edges,
\* get_monitor_at_point returns that rectangle: a point on the edge shared by
\* two adjacent monitors goes to the monitor whose left or top edge it is.
C13_MonitorOfContainedPoint ==
    geo_placed =>
        \A i \in 1..Len(monitors) : Holding = {i} => geo_monitor = monitors[i]

\* C13 witness: the cursor on the edge shared by two monitors, the first
\* enumerated to its left or above it, was attributed to the second.
C13_SharedEdgeGoesRightOrDown ==
    /\ geo_placed
    /\ Len(monitors) = 2
    /\ \/ geo_cursor[1] = monitors[1].right /\ geo_cursor[1] = monitors[2].left
       \/ geo_cursor[2] = monitors[1].bottom /\ geo_cursor[2] = monitors[2].top
    /\ Holding = {2}
    /\ geo_monitor = monitors[2]

\* C14: for a point in none of the enumerated rectangles get_monitor_at_point
\* returns the first enumerated monitor; it returns none exactly when the
\* enumeration is empty.
C14_FallbackToFirstMonitor ==
    geo_placed =>
        /\ (Holding = {} /\ monitors # <<>>) => geo_monitor = monitors[1]
        /\ geo_monitor = NoMonitor <=> monitors = <<>>

\* C14 witness: the cursor was outside both monitors and got the first.
C14_OutsidePointGotFirst ==
    /\ geo_placed
    /\ Len(monitors) = 2
    /\ Holding = {}
    /\ geo_monitor = monitors[1]

(***************************************************************************)
(* Claims about the popup manager and the application                      *)
(***************************************************************************)
\* The live popup windows a manager created.
LivePopups(m) == {w \in DOMAIN windows : windows[w].mgr = m}

\* C3: whatever show and close_current calls and dismissal events (click on
\* the popup, outside click, focus loss, auto-close timeout) have happened, a
\* manager has at most one live popup window, and a live window is the
\* manager's current popup: show destroyed the one before it.
C3_AtMostOneLivePopup ==
    \A m \in Managers :
        /\ Cardinality(LivePopups(m)) <= 1
        /\ LivePopups(m) \subseteq {current_popup[m]}

\* C3 witness: a show has replaced a popup that was still live.
C3_ShowReplacedLivePopup ==
    /\ Showing("app")
    /\ windows[current_popup["app"]].over # Nothing
    /\ Cardinality(LivePopups("app")) = 1

\* C2: once the result of a newer request has been displayed, the popup never
\* shows the result of an older request.
C2_StaleResultNeverShown ==
    \A w \in DOMAIN windows :
        windows[w].kind = "result" => windows[w].req >= newest_result

\* C4: the result that follows show(placeholder, position=P) is shown at P,
\* the cursor position captured at the hotkey press, wherever the cursor is
\* when the result arrives.
C4_ResultShownAtCapturedPosition ==
    \A w \in DOMAIN windows :
        windows[w].kind = "result" => windows[w].base = req_pos[windows[w].req]

\* A step of the Tk main-loop thread.
UiThreadStep == ui_run \/ cleanup \/ ui_event

\* C7: show and close_current run on the UI thread only, and no step of the
\* hotkey thread, a lookup thread or the update-check thread changes popup
\* state: those threads only add to the UI thread's queue.
C7_PopupStateOnlyOnUiThread ==
    /\ [](touched_by \subseteq {"main"})
    /\ [][<<windows, current_popup, next_id, timers, touched_by>>' #
             <<windows, current_popup, next_id, timers, touched_by>>
          => UiThreadStep]_vars

\* C7 witness: a show handed over by a lookup thread has run, on the UI thread.
C7_LookupResultShownByUiThread ==
    /\ touched_by = {"main"}
    /\ lookups = {}
    /\ \E w \in DOMAIN windows : windows[w].kind = "result"

\* C11: show("") and show(None) leave no visible popup, whether the manager
\* was Empty or Showing before the call: after such a call the manager has no
\* live popup, and no popup ever displays an empty text.
C11_EmptyShowLeavesNoPopup ==
    /\ empty_show # "no" => LivePopups("app") = {}
    /\ \A w \in DOMAIN windows : <<windows[w].kind, windows[w].req>>
                                      \notin {Nothing, EmptyText}

\* C11 witness: a show of an empty text has closed a popup that was live.
C11_EmptyShowClosedLivePopup ==
    /\ empty_show = "from_showing"
    /\ ~Showing("app")
    /\ next_id > 1

\* C12: a hotkey press whose capture returns absent does not invoke the popup:
\* it enqueues no show, starts no lookup thread (and prepares none), and
\* leaves the popups as they are.
C12_AbsentCaptureInvokesNoPopup ==
    [][on_hotkey_pressed(FALSE) =>
          /\ ui_queue' = ui_queue
          /\ lookups' = lookups
          /\ hk_pc' = "poll"
          /\ nreq' = nreq
          /\ <<windows, current_popup, next_id>>' = <<windows, current_popup, next_id>>
      ]_vars

\* C12 witness: a press captured nothing while a result popup was showing.
C12_AbsentPressWhileShowing ==
    /\ last_absent
    /\ Showing("app")
    /\ hk_pc = "poll"

\* C28: once the event loop has ended and _cleanup has run, the hotkey
\* monitor is stopped and no popup is live, and from then on no show is
\* executed and no popup appears, whatever a lookup thread still in flight
\* hands over afterwards.
C28_NoPopupOutlivesController ==
    /\ [](app_state = "stopped" => (windows = <<>> /\ ~running))
    /\ [][app_state = "stopped" =>
            /\ <<windows, current_popup, next_id, touched_by>>'
                  = <<windows, current_popup, next_id, touched_by>>
            /\ Len(ui_queue') >= Len(ui_queue)]_vars

\* The controller closed a live popup at shutdown, and the result a lookup
\* thread handed over afterwards is still waiting, never shown.
C28_ResultEnqueuedAfterShutdown ==
    /\ app_state = "stopped"
    /\ close_case = "live"
    /\ enqueued_late
    /\ ui_queue # <<>>
    /\ ui_queue[Len(ui_queue)].kind = "result"
    /\ windows = <<>>

\* The callbacks of kind `kind` for request r waiting in the UI queue.
Queued(kind, r) ==
    {i \in DOMAIN ui_queue : ui_queue[i].kind = kind /\ ui_queue[i].req = r}

Requests == 1..MaxRequests

\* C32: the placeholder show of a request is handed to the UI thread before
\* the request's lookup thread is started: while the thread runs and ever
\* after, the placeholder is waiting or has been run; in the queue it is ahead
\* of the request's result; and the UI thread never runs the placeholder of a
\* request after the result of that request.
C32_PlaceholderBeforeResult ==
    /\ [](\A r \in Requests :
            /\ (r \in lookups \/ Queued("result", r) # {}
                    \/ <<"result", r>> \in applied)
                  => (Queued("placeholder", r) # {}
                         \/ <<"placeholder", r>> \in applied)
            /\ \A i \in Queued("result", r), j \in Queued("placeholder", r) :
                  j < i
            /\ <<"result", r>> \in applied
                  => (<<"placeholder", r>> \in applied
                         /\ Queued("placeholder", r) = {}))
    /\ [][\A r \in Requests :
             (<<"placeholder", r>> \in applied'
                 /\ <<"placeholder", r>> \notin applied)
               => (<<"result", r>> \notin applied
                      /\ <<"result", r>> \notin applied')]_vars

\* C32 witness: the lookup of a request ended before the UI thread had run
\* the placeholder of the request, and its result waits behind the placeholder.
C32_ResultWaitsBehindPlaceholder ==
    \E r \in Requests :
        /\ Queued("placeholder", r) # {}
        /\ Queued("result", r) # {}
        /\ r \notin lookups

\* The result shows handed to the UI thread for request r so far.
ResultsEnqueued(r) ==
    Cardinality(Queued("result", r))
        + (IF <<"result", r>> \in applied THEN 1 ELSE 0)

ResultAlwaysCreatesPopup ==
    [][\A r \in Requests :
          (<<"result", r>> \in applied' /\ <<"result", r>> \notin applied)
            => /\ Showing("app")'
               /\ windows'[current_popup'["app"]].req = r
               /\ windows'[current_popup'["app"]].kind = "result"
               /\ current_popup'["app"] \notin DOMAIN windows]_vars

(***************************************************************************)
(* Claims about dismissal (checked under SpecPopupLive and SpecPopup).     *)
(***************************************************************************)
PopupIds == 1..MaxPopups

\* C21: with auto_close_ms absent no auto-close timer is ever scheduled; with
\* auto_close_ms = d every popup gets, at its creation, a timer of d ms that
\* stays with it as long as it lives, time does not pass the end of the timer
\* while the popup lives, and so the popup is gone d ms after its creation at
\* the latest.
C21_AutoCloseOnlyWhenConfigured ==
    /\ [](/\ auto_close_ms = <<>> => \A t \in timers : t[1] # "auto"
          /\ auto_close_ms # <<>> =>
                \A w \in DOMAIN windows :
                    \E t \in timers :
                        t[1] = "auto" /\ t[2] = w /\ t[3] <= auto_close_ms[1])
    /\ [][\A w \in PopupIds :
            /\ (/\ auto_close_ms # <<>>
                /\ w \notin DOMAIN windows /\ w \in DOMAIN windows')
                  => <<"auto", w, auto_close_ms[1]>> \in timers'
            /\ (<<"auto", w, 0>> \in timers /\ w \in DOMAIN windows')
                  => <<"auto", w, 0>> \in timers'
            /\ close_if_exists(w) => w \notin DOMAIN windows']_vars
    /\ \A w \in PopupIds :
          (auto_close_ms # <<>> /\ w \in DOMAIN windows)
              ~> (w \notin DOMAIN windows)

\* A popup is live 200 ms after its creation: its auto-close is due.
C21_PopupReachedItsTimeout ==
    /\ auto_close_ms = <<2 * FocusCloseMs>>
    /\ Showing("app")
    /\ <<"auto", current_popup["app"], 0>> \in timers

\* C36: an auto-close timer acts on the popup it was scheduled for only. A
\* popup that was replaced takes its timer with it; a timer that fires
\* destroys no other popup and touches no other popup's timer; and the timer
\* of a popup starts at the configured time, whatever was left of the timer
\* of the popup it replaced, and loses time only as time passes.
C36_TimerBelongsToItsPopup ==
    /\ [](\A t \in timers : t[1] = "auto" => t[2] \in DOMAIN windows)
    /\ [](\A t, u \in timers :
            (t[1] = "auto" /\ u[1] = "auto" /\ t[2] = u[2]) => t = u)
    /\ [][\A id \in PopupIds :
             close_if_exists(id) =>
                 /\ \A w \in DOMAIN windows : w # id => w \in DOMAIN windows'
                 /\ \A t \in timers : t[2] # id => t \in timers']_vars
    /\ [][\A t \in timers' :
             t[1] = "auto" =>
                 \/ t \in timers
                 \/ t[2] \notin DOMAIN windows /\ t[3] = auto_close_ms[1]
                 \/ <<"auto", t[2], t[3] + FocusCloseMs>> \in timers
                        /\ \A u \in timers :
                              <<u[1], u[2], u[3] - FocusCloseMs>> \in timers']_vars

\* C36 witness: a popup that replaced a live one, whose timer was running,
\* has lived for the whole configured time and is due itself.
C36_ReplacementReachedItsTimeout ==
    /\ auto_close_ms = <<2 * FocusCloseMs>>
    /\ \E w \in DOMAIN windows :
          /\ windows[w].over # Nothing
          /\ <<"auto", w, 0>> \in timers
          /\ w - 1 \notin DOMAIN windows

\* C22: while the app manager is Showing, a button press outside the popup,
\* wherever it lands, leads to the popup being gone; and a press inside the
\* popup is not handled as an outside click.
C22_OutsidePressDismisses ==
    /\ (outside_press /\ Showing("app")) ~> ~Showing("app")
    /\ [][\A w \in PopupIds :
            (w \in DOMAIN windows /\ on_global_click(w, TRUE))
                => windows' = windows]_vars

\* C23: a focus-out event schedules the focus check 100 ms on; time does not
\* pass the check; the check destroys the popup unless the focus is inside
\* it; no check is pending for a popup that is gone, so that none acts on a
\* destroyed popup; and a pending check always comes to run or is dropped
\* with its popup.
C23_FocusLossDismisses ==
    /\ [](\A t \in timers : t[2] \in DOMAIN windows)
    /\ [][\A w \in PopupIds :
            /\ on_focus_out(w) => <<"focus", w, FocusCloseMs>> \in timers'
            /\ (<<"focus", w, 0>> \in timers /\ w \in DOMAIN windows')
                  => (<<"focus", w, 0>> \in timers' \/ timers' = timers \ {<<"focus", w, 0>>})
            /\ close_if_unfocused(w, FALSE) => w \notin DOMAIN windows'
            /\ close_if_unfocused(w, TRUE)
                  => (windows' = windows /\ <<"focus", w, 0>> \notin timers')]_vars
    /\ \A w \in PopupIds :
          (\E t \in timers : t[1] = "focus" /\ t[2] = w)
              ~> (\A t \in timers : ~(t[1] = "focus" /\ t[2] = w))

\* The focus check of a live popup is due, 100 ms after the focus-out.
C23_FocusCheckDue ==
    /\ Showing("app")
    /\ <<"focus", current_popup["app"], 0>> \in timers

\* C29: close_current can be called in every state and raises nothing;
\* whether the manager holds no popup, a live one, or one already destroyed,
\* it leaves no current popup, no live popup of the manager and no pending
\* focus check; called when there is no current popup it changes nothing of
\* this, so that two calls leave what one call leaves.
C29_CloseCurrentIdempotent ==
    /\ [](ENABLED (close_current("app", "main")
                     /\ UNCHANGED <<monVars, capVars, geoVars, appVars,
                                    auxVars>>))
    /\ [][close_current("app", "main") =>
            /\ current_popup'["app"] = 0
            /\ \A w \in DOMAIN windows' : windows'[w].mgr # "app"
            /\ \A t \in timers' : t[1] # "focus"
            /\ current_popup["app"] = 0
                  => <<windows, timers, next_id>>' = <<windows, timers, next_id>>]_vars

\* close_current was called while current_popup referred to a popup that a
\* click, a focus loss or the auto-close had already destroyed.
C29_ClosedStalePopup ==
    /\ close_case = "stale"
    /\ current_popup["app"] = 0
    /\ windows = <<>>

(***************************************************************************)
(* Claims about the dictionary lookup (checked under SpecLexin).           *)
(***************************************************************************)
\* C25: lookup never raises to its caller: when the request fails (network
\* error, timeout), the body does not decode or parse, or the response is
\* malformed in any way, it returns the empty list; and what it returns after
\* a well-formed response has at most max_results translations.
C25_LookupNeverRaises ==
    lex_called =>
        /\ lex_ret.k = "list"
        /\ lookup_body(lex_in.resp, lex_in.max_results).k = "exc"
              => lex_ret.v = <<>>
        /\ Len(lex_ret.v) <= lex_in.max_results

\* A malformed entry made the parser raise and lookup returned the empty list.
C25_MalformedGaveEmpty ==
    /\ lex_called
    /\ lex_in.resp.kind = "entries"
    /\ \E i \in 1..Len(lex_in.resp.entries) : lex_in.resp.entries[i] = BadEntry
    /\ \E i \in 1..Len(lex_in.resp.entries) : lex_in.resp.entries[i] # BadEntry
    /\ lex_ret = PyList(<<>>)

\* Two translations were found and max_results = 1 kept the first.
C25_ResultsTruncated ==
    /\ lex_called
    /\ lex_in.max_results = 1
    /\ Len(parse_results(lex_in.resp).v) = 2
    /\ Len(lex_ret.v) = 1

(***************************************************************************)
(* Claims about the update checker (checked under SpecUpdater).            *)
(***************************************************************************)
\* The check recorded in the cache file before the latest call was less than
\* the interval old when the call was made.
RecentlyChecked(c, now) ==
    c.state = "valid" /\ now - c.last_check < CHECK_INTERVAL_HOURS

\* C26: an unforced check_for_updates made less than CHECK_INTERVAL_HOURS
\* after the recorded last check makes no network request, returns None and
\* leaves the record alone; a call that does check makes its requests and
\* then marks the check, whatever the two requests came to, leaving the
\* current time in the cache file (unless the file cannot be written); a
\* forced call always checks.
C26_ChecksAreThrottled ==
    [][upd_call' # upd_call =>
          /\ (~upd_call'.force /\ RecentlyChecked(cache, upd_now))
                => (upd_requests' = 0 /\ upd_ret' = "none" /\ cache' = cache
                       /\ ~upd_marked')
          /\ upd_requests' > 0
                => (/\ upd_marked'
                    /\ upd_call'.write = "ok" => cache' = CacheValid(upd_now))
          /\ upd_call'.force => (upd_requests' > 0 /\ upd_marked')]_vars

\* A check made during the run recorded its time, and the unforced call an
\* hour later made no request.
C26_ThrottledAfterCheck ==
    /\ upd_call.called /\ ~upd_call.force
    /\ upd_requests = 0
    /\ cache = CacheValid(CHECK_INTERVAL_HOURS + 7)
    /\ upd_now = CHECK_INTERVAL_HOURS + 8
    /\ upd_call.at = upd_now

(***************************************************************************)
(* Claims about the keyboard hook (checked under SpecHook).                *)
(***************************************************************************)
\* C27: a hook that cannot be installed is fatal at start-up:
\* start_alt_n_hotkey then raises and main() never enters the event loop, and
\* start_alt_n_hotkey never returns a runner whose hook is not installed.
C27_NoRunnerWithoutHook ==
    /\ runner # "no_hook"
    /\ runner = "hook" => hook_id # 0
    /\ hook_error => hp_main \notin {"mainloop", "exited"}

\* C30: every call of the hook procedure -- event not to be processed, key
\* code unreadable, chord not matched, chord matched, callback raising -- calls
\* CallNextHookEx exactly once and returns what it returned.
C30_EveryEventPassedOn ==
    hook_ev.seen =>
        /\ hook_ev.next_calls = 1
        /\ hook_ev.ret = <<hook_ev.next_ret>>

\* The chord matched, the callback raised something that is not an Exception,
\* and the event was still passed on.
C30_PassedOnAfterCallbackRaised ==
    /\ hook_ev.case = "callback_raised"
    /\ hk_triggered
    /\ hook_ev.next_calls = 1
    /\ hook_ev.ret = <<1>>

(***************************************************************************)
(* Claims about the single-file entry point (checked under SpecMono).      *)
(***************************************************************************)

\* C31: in the HotkeyMonitor of main.py an exception raised by the callback
\* is caught and does not end the monitor loop: the monitor thread ends only
\* by leaving `while self.running`, never by an exception of the callback.
C31_MonoRaiseDoesNotStopLoop ==
    /\ mono_thread # "dead"
    /\ (mono_raised /\ mono_thread = "done") => ~mono_running

(***************************************************************************)
(* Claims about restarting the monitor (checked under SpecRestart).        *)
(***************************************************************************)

\* C35: over any sequence of start() and stop() calls on one HotkeyMonitor
\* at most one poll-loop thread is running at any time.
C35_AtMostOnePollThread == Cardinality(LiveThreads) <= 1

\* C38: whenever get_selected_text has run on a thread, the session has been
\* initialized (CoInitialize called) on that same thread.
C38_InitializedOnCallingThread == rs_callers \subseteq rs_com_threads

====
